---- MODULE Spec2Model ----
(***************************************************************************)
(* Model of the Task Master VS Code extension's reconciliation layer:      *)
(* the task cache and its refresh (TaskCacheService, TagService,           *)
(* TaskManagerService), the filter memo (TaskFilterManager), the CLI       *)
(* runner (CLIService.executeCommand) and the pure repair / cleaning       *)
(* helpers (taskUtils, outputParser).                                      *)
(*                                                                         *)
(* JavaScript values are modelled as follows.  A number is [n |-> 3], a    *)
(* string is [s |-> <<"1", ".", "2">>] (a sequence of one-character        *)
(* strings), so that a number and a numeric-looking string are different   *)
(* values, as they are for === in the source.                              *)
(***************************************************************************)
EXTENDS Integers, Sequences, FiniteSets, Bags, TLC

VARIABLES
    \* ---- tasks.json / config.json and the cache built from them ----
    tasksFile,        \* contents of <root>/.taskmaster/tasks/tasks.json
    configTag,        \* global.defaultTag of <root>/.taskmaster/config.json
    report,           \* contents of task-complexity-report.json (a score for task 1, or none)
    currentTag,       \* TagService.currentTag
    cachedTasks,      \* TaskCacheService.cachedTasks
    cachedResponse,   \* TaskCacheService.cachedResponse
    lastEvent,        \* the tasksUpdated or refreshError TaskCacheService emitted last
    running,          \* the call chain whose code is running: its position and locals
    awaiting,         \* the call chains that wait for I/O, a bag of positions and locals
    notify,           \* file-watcher notifications not yet delivered
    writes,           \* number of changes made to the files from outside so far
    \* ---- TaskFilterManager ----
    fstate,           \* TaskFilterManager.state
    clock,            \* Date.now()
    freq,             \* the last filter request: the list and tag passed in
    fres,             \* what the last filter request returned
    \* ---- CLIService.executeCommand and the operations that call it ----
    xpc,              \* position of the operation: "idle", "awaiting" or "done"
    xproc,            \* the child process of the current invocation and its timer
    xout,             \* the promise executeCommand returned
    xcalls,           \* number of CLI processes the operation has spawned
    xop,              \* the operation: its kind, the id passed, how its invocations failed
    \* ---- cleanCliOutput ----
    cleanIn,          \* the raw output
    cleanOut,         \* the results of cleaning it once, and of cleaning that result
    \* ---- fixStringDependencies ----
    depsIn,           \* the task list passed in
    depsOut,          \* whether the function was applied, and the list it returned
    \* ---- fixSubtaskIds ----
    subIn,            \* the task list passed in
    subOut,           \* what it returned for that list, and for the list it returned
    \* ---- mergeComplexityScores ----
    mergeIn,          \* the task list and the report passed in, as they are now
    mergeOut,         \* the arguments as they were passed, and the list returned
    \* ---- calculateStats ----
    statsIn,          \* the task list passed in
    statsOut,         \* whether the function was applied, and the stats it returned
    \* ---- the output parsers ----
    parseIn,          \* the raw output of the CLI
    parseOut,         \* the parser applied, and what it returned
    \* ---- CLIService.getCurrentTag and readTasksFile ----
    tagIn,            \* the tags of the parsed tasks file, in the order of its keys
    tagOut,           \* the current tag each of the two resolved
    \* ---- the operations of TaskManagerService that run the CLI ----
    opResult,         \* the operation that ended last, and how it reported
    \* ---- CLIService.checkCLIVersion ----
    verIn,            \* how `--version` ended, and what it printed
    verOut,           \* what checkCLIVersion returned
    \* ---- TaskManagerService.getNextTaskOrSubtask ----
    nextIn,           \* how `next` ended and what it printed, and the cache
    nextOut,          \* what getNextTaskOrSubtask returned
    \* ---- TaskManagerService.initialize and FileWatcherService ----
    projectFolders,   \* the workspace folders that hold .taskmaster/tasks/tasks.json
    isInitialized,    \* TaskManagerService.isInitialized
    managedWorkspaceFolderUris, \* TaskManagerService.managedWorkspaceFolderUris
    watchersMap,      \* FileWatcherService.watchersMap: per folder, the pair it holds
    watchers,         \* the pairs of file watchers created so far, disposed or live
    configListeners,  \* configuration listeners registered and not disposed
    tagLoads,         \* per folder, how often loadCurrentTagForFolder ran
    initCalls         \* per call of initialize, where it is and at which folder

refreshVars == <<tasksFile, configTag, report, currentTag, cachedTasks,
                 cachedResponse, lastEvent, running, awaiting, notify, writes>>
filterVars  == <<fstate, clock, freq, fres>>
execVars    == <<xpc, xproc, xout, xcalls, xop>>
cleanVars   == <<cleanIn, cleanOut>>
depsVars    == <<depsIn, depsOut>>
subVars     == <<subIn, subOut>>
mergeVars   == <<mergeIn, mergeOut>>
statsVars   == <<statsIn, statsOut>>
parseVars   == <<parseIn, parseOut>>
tagVars     == <<tagIn, tagOut>>
utilVars    == <<subVars, mergeVars, statsVars, parseVars, tagVars>>
opVars      == <<opResult>>
verVars     == <<verIn, verOut>>
nxtVars     == <<nextIn, nextOut>>
iniVars     == <<projectFolders, isInitialized, managedWorkspaceFolderUris,
                 watchersMap, watchers, configListeners, tagLoads, initCalls>>
svcVars     == <<opVars, verVars, nxtVars, iniVars>>
vars == <<refreshVars, filterVars, execVars, cleanVars, depsVars, utilVars, svcVars>>

\* what the actions on the cache, and those on the filter memo, leave alone
nonRefresh == <<clock, freq, fres, execVars, cleanVars, depsVars, utilVars, svcVars>>
nonFilter  == <<execVars, cleanVars, depsVars, utilVars, svcVars>>
nonExec    == <<refreshVars, filterVars, cleanVars, depsVars, utilVars, svcVars>>
\* ... and what the operations that run the CLI leave alone
nonCommand == <<clock, freq, fres, execVars, cleanVars, depsVars, utilVars,
                verVars, nxtVars, iniVars>>

-----------------------------------------------------------------------------
(* Bounds of the model *)

NumProcs   == 2     \* asynchronous call chains that can be in flight together
MaxWrites  == 1     \* changes made to the files by the CLI or an editor
MaxNotify  == 1     \* undelivered file-watcher notifications
MaxElapsed == 10000 \* milliseconds that pass in a behaviour of the filter memo
MaxOut     == 2     \* characters a child process writes to stdout, and to stderr
MaxCleanLen == 4    \* characters of a raw output passed to cleanCliOutput
MaxDeps    == 2     \* entries of a dependency list passed to fixStringDependencies
MaxSubs    == 2     \* subtasks of a task passed to fixSubtaskIds
MaxAnalyses == 2    \* analyses of a report passed to mergeComplexityScores
MaxStatSubs == 2    \* subtasks of a task passed to calculateStats
MaxFrags   == 4     \* fragments of an output passed to parseNextTaskOutput
MaxParts   == 2     \* fragments of an output passed to the other parsers
MaxTags    == 2     \* tags of a tasks file whose current tag is resolved
NumFolders == 2     \* workspace folders of the window
NumInits   == 2     \* calls of TaskManagerService.initialize

-----------------------------------------------------------------------------
(* JavaScript values *)

Num(k)  == [n |-> k]
Str(cs) == [s |-> cs]
IsNum(v) == "n" \in DOMAIN v
IsStr(v) == "s" \in DOMAIN v

Digits == {"0", "1", "2", "3", "4", "5", "6", "7", "8", "9"}

DigitVal(c) ==
    CASE c = "0" -> 0 [] c = "1" -> 1 [] c = "2" -> 2 [] c = "3" -> 3
      [] c = "4" -> 4 [] c = "5" -> 5 [] c = "6" -> 6 [] c = "7" -> 7
      [] c = "8" -> 8 [] c = "9" -> 9

DigitChar(d) ==
    CASE d = 0 -> "0" [] d = 1 -> "1" [] d = 2 -> "2" [] d = 3 -> "3"
      [] d = 4 -> "4" [] d = 5 -> "5" [] d = 6 -> "6" [] d = 7 -> "7"
      [] d = 8 -> "8" [] d = 9 -> "9"

\* /^\d+$/.test(dep)
IsDigitString(cs) == Len(cs) > 0 /\ \A i \in 1..Len(cs) : cs[i] \in Digits

\* parseInt(dep, 10) on a string of decimal digits
RECURSIVE ParseInt(_)
ParseInt(cs) ==
    IF cs = <<>> THEN 0
    ELSE 10 * ParseInt(SubSeq(cs, 1, Len(cs) - 1)) + DigitVal(cs[Len(cs)])

\* String(task.id) for a non-negative integer
RECURSIVE NumToString(_)
NumToString(k) ==
    IF k < 10 THEN <<DigitChar(k)>>
    ELSE Append(NumToString(k \div 10), DigitChar(k % 10))

\* id.split(".")
RECURSIVE SplitDot(_)
SplitDot(cs) ==
    IF \A i \in 1..Len(cs) : cs[i] # "." THEN <<cs>>
    ELSE LET k == CHOOSE i \in 1..Len(cs) :
                      cs[i] = "." /\ \A j \in 1..(i - 1) : cs[j] # "."
         IN <<SubSeq(cs, 1, k - 1)>> \o SplitDot(SubSeq(cs, k + 1, Len(cs)))

MapSeq(f(_), sq) == [i \in 1..Len(sq) |-> f(sq[i])]

-----------------------------------------------------------------------------
(* Tasks *)

Undefined == -1     \* complexityScore of a task that has none

\* the value of a dependencies or subtasks field that is not an array (the
\* field is absent); no array of dependencies or subtasks equals it
AbsentField == <<[undefined |-> TRUE]>>

Subtask(sid, st, deps) == [id |-> sid, status |-> st, dependencies |-> deps]
Task(tid, st, deps, subs) ==
    [id |-> tid, status |-> st, dependencies |-> deps, subtasks |-> subs,
     complexityScore |-> Undefined]

-----------------------------------------------------------------------------
(* taskUtils.ts *)

\* the digits a string starts with
RECURSIVE LeadingDigits(_)
LeadingDigits(cs) ==
    IF cs # <<>> /\ cs[1] \in Digits THEN <<cs[1]>> \o LeadingDigits(Tail(cs))
    ELSE <<>>

\* FixDep with the test /^\d+/, which a subtask reference passes
FixDepUnanchored(dep) ==
    IF IsStr(dep) /\ LeadingDigits(dep.s) # <<>>
    THEN Num(ParseInt(LeadingDigits(dep.s)))
    ELSE dep

\* typeof dep === "string" && /^\d+$/.test(dep) ? parseInt(dep, 10) : dep
FixDep(dep) ==
    IF IsStr(dep) /\ IsDigitString(dep.s) THEN Num(ParseInt(dep.s)) ELSE dep

\* x && Array.isArray(x)
IsArray(v) == v # AbsentField

FixSubtaskDeps(sub) ==
    IF IsArray(sub.dependencies)
    THEN [sub EXCEPT !.dependencies = MapSeq(FixDep, sub.dependencies)]
    ELSE sub

FixTaskDeps(task) ==
    LET fixedTask == IF IsArray(task.dependencies)
                     THEN [task EXCEPT !.dependencies = MapSeq(FixDep, task.dependencies)]
                     ELSE task
    IN IF IsArray(fixedTask.subtasks)
       THEN [fixedTask EXCEPT !.subtasks = MapSeq(FixSubtaskDeps, fixedTask.subtasks)]
       ELSE fixedTask

fixStringDependencies(tasks) == MapSeq(FixTaskDeps, tasks)

\* IsCompoundIdOf without the comparison of parts[0] with the parent's id
IsCompoundIdOfAnyParent(task, sub) ==
    /\ IsStr(sub.id)
    /\ \E i \in 1..Len(sub.id.s) : sub.id.s[i] = "."
    /\ Len(SplitDot(sub.id.s)) = 2

\* the test of taskUtils.ts:83-89 on one subtask of a task
IsCompoundIdOf(task, sub) ==
    /\ IsStr(sub.id)
    /\ \E i \in 1..Len(sub.id.s) : sub.id.s[i] = "."
    /\ LET parts == SplitDot(sub.id.s)
       IN Len(parts) = 2 /\ parts[1] = NumToString(task.id)

\* FixTaskSubtaskIds with the new id kept in the form "<parentId>.<position>"
FixTaskSubtaskIdsDotted(task) ==
    IF ~IsArray(task.subtasks) THEN task
    ELSE [task EXCEPT !.subtasks =
            [i \in 1..Len(task.subtasks) |->
                IF IsCompoundIdOf(task, task.subtasks[i])
                THEN [task.subtasks[i] EXCEPT
                        !.id = Str(NumToString(task.id) \o <<".">> \o NumToString(i))]
                ELSE task.subtasks[i]]]

FixTaskSubtaskIds(task) ==
    IF ~IsArray(task.subtasks) THEN task
    ELSE [task EXCEPT !.subtasks =
            [i \in 1..Len(task.subtasks) |->
                IF IsCompoundIdOf(task, task.subtasks[i])
                THEN [task.subtasks[i] EXCEPT !.id = Num(i)]
                ELSE task.subtasks[i]]]

\* a variant that reports a change for every task with a subtasks array
TaskHasSubtasks(task) == IsArray(task.subtasks)

TaskChanged(task) ==
    /\ IsArray(task.subtasks)
    /\ \E i \in 1..Len(task.subtasks) : IsCompoundIdOf(task, task.subtasks[i])

fixSubtaskIds(tasks) ==
    [tasks        |-> MapSeq(FixTaskSubtaskIds, tasks),
     hasChanges   |-> \E i \in 1..Len(tasks) : TaskChanged(tasks[i]),
     changedTasks |-> SelectSeq(MapSeq(LAMBDA t : IF TaskChanged(t) THEN t.id ELSE 0 - 1, tasks),
                                LAMBDA k : k >= 0)]

\* a complexity report is NoReport (null) or a record with the list of
\* analyses, each for a task id
NoReport == [none |-> TRUE]

Analysis(taskId, score) == [taskId |-> taskId, complexityScore |-> score]

Report(analyses) == [complexityAnalysis |-> analyses]

\* the Map filled by complexityMap.set(analysis.taskId, analysis) for each
\* analysis in turn: a later analysis replaces an earlier one for the same id
RECURSIVE ComplexityMap(_)
ComplexityMap(analyses) ==
    IF analyses = <<>> THEN <<>>
    ELSE LET m == ComplexityMap(SubSeq(analyses, 1, Len(analyses) - 1))
             a == analyses[Len(analyses)]
         IN [k \in DOMAIN m \cup {a.taskId} |-> IF k = a.taskId THEN a ELSE m[k]]

mergeComplexityScores(tasks, rep) ==
    IF rep = NoReport THEN tasks
    ELSE LET complexityMap == ComplexityMap(rep.complexityAnalysis)
         IN MapSeq(LAMBDA t : IF t.id \in DOMAIN complexityMap
                              THEN [t EXCEPT !.complexityScore =
                                               complexityMap[t.id].complexityScore]
                              ELSE t,
                   tasks)

\* the statuses of types.ts, and one that a later version of the tool writes
TaskStatuses == {"pending", "in-progress", "done", "review", "deferred",
                 "cancelled", "blocked"}
UnknownStatus == "archived"

\* a quotient of two integers, as the fraction in lowest terms it equals; the
\* number 0 is Ratio(0, 1)
RECURSIVE GCD(_, _)
GCD(a, b) == IF b = 0 THEN a ELSE GCD(b, a % b)

Ratio(a, b) == [num |-> a \div GCD(a, b), den |-> b \div GCD(a, b)]

NaN == [nan |-> TRUE]

\* (completed / total) * 100 without the test total > 0: 0 / 0 is NaN
CompletionPercentageUnguarded(completed, total) ==
    IF total = 0 THEN NaN ELSE Ratio(completed * 100, total)

\* total > 0 ? (completed / total) * 100 : 0
CompletionPercentage(completed, total) ==
    IF total > 0 THEN Ratio(completed * 100, total) ELSE Ratio(0, 1)

\* the object calculateStats starts from
InitialStats(total) ==
    [total |-> total, completed |-> 0, inProgress |-> 0, pending |-> 0,
     blocked |-> 0, deferred |-> 0, cancelled |-> 0, review |-> 0,
     completionPercentage |-> Ratio(0, 1),
     subtasks |-> [total |-> 0, completed |-> 0, inProgress |-> 0, pending |-> 0,
                   blocked |-> 0, deferred |-> 0, cancelled |-> 0,
                   completionPercentage |-> Ratio(0, 1)]]

NoBucket == ""

\* the counter that switch (task.status) increments
TaskBucket(status) ==
    CASE status = "done"        -> "completed"
      [] status = "in-progress" -> "inProgress"
      [] status = "pending"     -> "pending"
      [] status = "blocked"     -> "blocked"
      [] status = "deferred"    -> "deferred"
      [] status = "cancelled"   -> "cancelled"
      [] status = "review"      -> "review"
      [] OTHER                  -> NoBucket

\* the counter that switch (subtask.status) increments
SubtaskBucket(status) ==
    CASE status = "done"        -> "completed"
      [] status = "in-progress" -> "inProgress"
      [] status = "pending"     -> "pending"
      [] status = "blocked"     -> "blocked"
      [] status = "deferred"    -> "deferred"
      [] status = "cancelled"   -> "cancelled"
      [] OTHER                  -> NoBucket

Increment(counters, bucket) ==
    IF bucket = NoBucket THEN counters ELSE [counters EXCEPT ![bucket] = @ + 1]

\* task.subtasks.forEach(...) on the counters of the subtasks
RECURSIVE CountSubtasks(_, _)
CountSubtasks(counters, subtasks) ==
    IF subtasks = <<>> THEN counters
    ELSE CountSubtasks(Increment(counters, SubtaskBucket(Head(subtasks).status)),
                       Tail(subtasks))

\* the body of tasks.forEach(...)
CountTask(stats, task) ==
    LET counted == Increment(stats, TaskBucket(task.status))
    IN IF task.subtasks # AbsentField
       THEN [counted EXCEPT !.subtasks =
               CountSubtasks([@ EXCEPT !.total = @ + Len(task.subtasks)],
                             task.subtasks)]
       ELSE counted

RECURSIVE CountTasks(_, _)
CountTasks(stats, tasks) ==
    IF tasks = <<>> THEN stats
    ELSE CountTasks(CountTask(stats, Head(tasks)), Tail(tasks))

calculateStats(tasks) ==
    LET stats == CountTasks(InitialStats(Len(tasks)), tasks)
    IN [stats EXCEPT
          !.completionPercentage = CompletionPercentage(stats.completed, stats.total),
          !.subtasks.completionPercentage =
              CompletionPercentage(stats.subtasks.completed, stats.subtasks.total)]

-----------------------------------------------------------------------------
(* The files the extension reads *)

Tags == {"master", "feature"}

\* a top-level entry of tasks.json: kind is "ok" (an object with a tasks
\* array), "tasksNotArray" (tasks is not an array) or "absent" (no such key,
\* or no tasks key in it)
Entry(kind, tasks) == [kind |-> kind, tasks |-> tasks]
AbsentEntry == Entry("absent", <<>>)

WellFormed(tags) == [malformed |-> FALSE, tags |-> tags]
\* a file caught half-written does not parse
Corrupt(file) == [file EXCEPT !.malformed = TRUE]

TPending1 == Task(1, "pending", <<>>, <<>>)
TDone1    == Task(1, "done", <<>>, <<>>)
TCompound == Task(1, "pending", <<Str(<<"2">>)>>,
                  <<Subtask(Str(<<"1", ".", "1">>), "pending", <<>>)>>)

\* the task lists the external tool writes in this model
FileLists == { <<>>, <<TPending1>>, <<TDone1>>, <<TCompound>> }

FileEntries == {Entry("ok", l) : l \in FileLists}
                 \cup {Entry("tasksNotArray", <<>>), AbsentEntry}

Reports == {NoReport, Report(<<Analysis(1, 7)>>)}

NULL == [null |-> TRUE]

\* a call chain: its position (pc) and its locals; NoChain is none.  The
\* locals of an operation that runs the CLI are the arguments it was called
\* with (call), the CLI commands it has still to await (calls, the first
\* being the one awaited) and whether a failed set-status is tried again
\* (retry)
NoChain ==
    [pc |-> "idle", tag |-> "master", tasks |-> <<>>,
     notArray |-> FALSE, sawMalformed |-> FALSE, target |-> "master",
     call |-> [op |-> "none"], calls |-> <<>>, retry |-> FALSE]

Chain(pc) == [NoChain EXCEPT !.pc = pc]

Event(name, tasks) == [name |-> name, tasks |-> tasks]

-----------------------------------------------------------------------------
(* TagService *)

\* what getTasksByTag returns for a parsed file; JSON.parse failures are
\* caught there and give []
GetTasksByTag(file, tag) ==
    IF file.malformed THEN <<>>
    ELSE IF file.tags[tag].kind = "ok" THEN file.tags[tag].tasks
    ELSE <<>>

-----------------------------------------------------------------------------
(* Scheduling.  The extension host runs one callback at a time and drains    *)
(* the promise continuations it queued before it takes the next event.  The  *)
(* awaits of refreshTasksFromFile up to readComplexityReport wait for no     *)
(* I/O (TagService reads with readFileSync), so between them no other        *)
(* callback of the extension runs; only other programs can act, on the       *)
(* files.  The awaits on a CLI process and on readComplexityReport wait for  *)
(* I/O, and any other callback can run meanwhile.                            *)

\* no callback of the extension is running
HostIdle == running = NoChain

InFlight == BagCardinality(awaiting) + (IF HostIdle THEN 0 ELSE 1)

\* a new call chain can start, with fewer than lim of them in flight
CanStart(lim) == HostIdle /\ InFlight < lim

\* the call chains that wait for I/O
Waiting == BagToSet(awaiting)

\* the I/O that chain c waits for completes, and its continuation runs
Resume(c) ==
    /\ HostIdle
    /\ BagIn(c, awaiting)
    /\ awaiting' = awaiting (-) SetToBag({c})

\* the running chain starts to wait for I/O at position pc
Suspend(c) ==
    /\ awaiting' = awaiting (+) SetToBag({c})
    /\ running' = NoChain

-----------------------------------------------------------------------------
(* TaskCacheService.refreshTasksFromFile, one action per stretch of code     *)
(* between two reads of the files                                            *)

\* the call itself, up to the return of getCurrentTagInfo: getAllTags reads
\* and parses tasks.json and, if that worked, sets this.currentTag from
\* config.json; a file that does not parse leaves this.currentTag as it was.
\* getCurrentTagInfo then counts the tasks of this.currentTag and returns it.
RefreshCall ==
    /\ currentTag' = IF tasksFile.malformed THEN currentTag ELSE configTag
    /\ running' = [Chain("read") EXCEPT !.tag = currentTag']
    /\ UNCHANGED <<tasksFile, configTag, report, cachedTasks,
                   cachedResponse, lastEvent, awaiting, writes>>

\* TaskManagerService.refreshTasks called from a command or by the user
RefreshTasks(lim) ==
    /\ CanStart(lim)
    /\ RefreshCall
    /\ UNCHANGED <<notify, fstate>>
    /\ UNCHANGED nonRefresh

\* the file watcher's onDidChange / onDidCreate handler
WatcherFire(lim) ==
    /\ CanStart(lim)
    /\ notify > 0
    /\ notify' = notify - 1
    /\ RefreshCall
    /\ UNCHANGED fstate
    /\ UNCHANGED nonRefresh

\* the refresh a command or a tag switch issues once its CLI call succeeded
RefreshAfterCommand ==
    /\ running.pc = "call"
    /\ RefreshCall
    /\ UNCHANGED <<notify, fstate>>
    /\ UNCHANGED nonRefresh

\* tasks = await tagService.getTasksByTag(currentTag)
RefreshRead ==
    /\ running.pc = "read"
    /\ running' = [running EXCEPT
                      !.pc = "fix",
                      !.tasks = GetTasksByTag(tasksFile, running.tag),
                      !.notArray = /\ ~tasksFile.malformed
                                   /\ tasksFile.tags[running.tag].kind = "tasksNotArray",
                      !.sawMalformed = tasksFile.malformed]
    /\ UNCHANGED <<tasksFile, configTag, report, currentTag, cachedTasks,
                   cachedResponse, lastEvent, awaiting, notify, writes, fstate>>
    /\ UNCHANGED nonRefresh

\* the catch block of refreshTasksFromFile
RefreshFails ==
    /\ lastEvent' = Event("refreshError", <<>>)
    /\ running' = NoChain
    /\ UNCHANGED awaiting

\* a variant that names the tag selected in the filter
getSelectedTag == fstate.currentSelectedTag

\* TagService.getCurrentTag(), which the write-back calls for the key to
\* write under
TagServiceGetCurrentTag == currentTag

\* fixStringDependencies, fixSubtaskIds and the write-back of repaired ids,
\* up to the call of readComplexityReport
RefreshFix ==
    /\ running.pc = "fix"
    /\ IF running.notArray
       THEN \* tasks.map is not a function
            /\ RefreshFails
            /\ UNCHANGED <<tasksFile, notify>>
       ELSE LET fix == fixSubtaskIds(fixStringDependencies(running.tasks))
                wtag == TagServiceGetCurrentTag
                next == [running EXCEPT !.pc = "report", !.tasks = fix.tasks]
            IN IF ~fix.hasChanges
               THEN /\ Suspend(next)
                    /\ UNCHANGED <<tasksFile, notify, lastEvent>>
               ELSE IF tasksFile.malformed \/ tasksFile.tags[wtag].kind = "absent"
               THEN \* JSON.parse throws, or currentTasksFileData[currentTag] is undefined
                    /\ RefreshFails
                    /\ UNCHANGED <<tasksFile, notify>>
               ELSE /\ tasksFile' = [tasksFile EXCEPT
                                        !.tags[wtag] = Entry("ok", fix.tasks)]
                    /\ notify' = IF notify < MaxNotify THEN notify + 1 ELSE notify
                    /\ Suspend(next)
                    /\ UNCHANGED lastEvent
    /\ UNCHANGED <<configTag, report, currentTag, cachedTasks, cachedResponse,
                   writes, fstate>>
    /\ UNCHANGED nonRefresh

\* RefreshFinish with the response left as it was
RefreshFinishTasksOnly ==
    /\ \E c \in Waiting :
          /\ c.pc = "report"
          /\ Resume(c)
          /\ LET merged == mergeComplexityScores(c.tasks, report)
             IN /\ cachedTasks' = merged
                /\ lastEvent' = Event("tasksUpdated", merged)
    /\ UNCHANGED <<tasksFile, configTag, report, currentTag, cachedResponse,
                   running, notify, writes, fstate>>
    /\ UNCHANGED nonRefresh

\* after readComplexityReport: merge, build the response, replace the cache
RefreshFinish ==
    /\ \E c \in Waiting :
          /\ c.pc = "report"
          /\ Resume(c)
          /\ LET merged == mergeComplexityScores(c.tasks, report)
                 response == [tasks |-> merged, currentTag |-> c.tag]
             IN /\ cachedResponse' = response
                /\ cachedTasks' = merged
                /\ lastEvent' = Event("tasksUpdated", merged)
    /\ UNCHANGED <<tasksFile, configTag, report, currentTag, running, notify,
                   writes, fstate>>
    /\ UNCHANGED nonRefresh

\* TaskCacheService.clearCache, called by TaskManagerService.dispose
ClearCache ==
    /\ HostIdle
    /\ cachedTasks' = <<>>
    /\ cachedResponse' = NULL
    /\ UNCHANGED <<tasksFile, configTag, report, currentTag, lastEvent, running,
                   awaiting, notify, writes, fstate>>
    /\ UNCHANGED nonRefresh

-----------------------------------------------------------------------------
(* TaskFilterManager (taskFilterUtils).  The field allTasksTime is written  *)
(* with lastFilterTime and never read; it is left out.                      *)

CACHE_TTL == 5000

\* Date.now() when the extension starts; any value of at least CACHE_TTL
\* behaves like the real clock, for which a lastFilterTime of 0 is expired
StartTime == 5000

\* the steps by which the model's clock advances
TickSteps == {CACHE_TTL - 1, CACHE_TTL}

InitialFilterState ==
    [currentSelectedTag |-> "master", lastFilteredTasks |-> <<>>,
     lastFilterTime |-> 0, allTasks |-> <<>>]

setCurrentSelectedTag(st, tagId) ==
    IF st.currentSelectedTag # tagId
    THEN [st EXCEPT !.currentSelectedTag = tagId,
                    !.lastFilteredTasks = <<>>,
                    !.lastFilterTime = 0]
    ELSE st

\* a variant that still accepts a memo of exactly CACHE_TTL
isFilterCacheValidInclusive(st, now) == now - st.lastFilterTime <= CACHE_TTL

\* Date.now() - this.state.lastFilterTime < this.CACHE_TTL
isFilterCacheValid(st, now) == now - st.lastFilterTime < CACHE_TTL

areTasksUnchanged(st, allTasks) ==
    IF Len(allTasks) # Len(st.allTasks) THEN FALSE
    ELSE IF Len(allTasks) > 0 /\ Len(st.allTasks) > 0
    THEN LET firstChanged == allTasks[1].id # st.allTasks[1].id
             lastChanged == allTasks[Len(allTasks)].id # st.allTasks[Len(st.allTasks)].id
         IN ~firstChanged /\ ~lastChanged
    ELSE TRUE

\* the tagId argument left out
NoTagArg == ""

TargetTag(st, tagId) == IF tagId = NoTagArg THEN st.currentSelectedTag ELSE tagId

\* the test that lets filterTasksByTag answer from the memo
FilterCacheHit(st, allTasks, tagId, now) ==
    /\ TargetTag(st, tagId) = st.currentSelectedTag
    /\ isFilterCacheValid(st, now)
    /\ areTasksUnchanged(st, allTasks)

\* filterTasksByTag: the state it leaves and the list it returns
filterTasksByTag(st, allTasks, tagId, now) ==
    IF FilterCacheHit(st, allTasks, tagId, now)
    THEN [state |-> st, result |-> st.lastFilteredTasks]
    ELSE [state |-> [st EXCEPT !.lastFilteredTasks = allTasks,
                               !.lastFilterTime = now,
                               !.allTasks = allTasks],
          result |-> allTasks]

clearFilterCache(st) ==
    [st EXCEPT !.lastFilteredTasks = <<>>, !.lastFilterTime = 0,
               !.allTasks = <<>>]

\* a filter request and what is recorded of it: the list and tag passed in,
\* whether it was answered from the memo, the tag of the request that had
\* filled the memo, the time of the request and the time at which the memo
\* was filled
FilterRequest(kind, allTasks, tagId) ==
    LET r == filterTasksByTag(fstate, allTasks, tagId, clock)
        hit == FilterCacheHit(fstate, allTasks, tagId, clock)
    IN /\ fstate' = r.state
       /\ fres' = r.result
       /\ freq' = [kind |-> kind, tasks |-> allTasks,
                   tag |-> TargetTag(fstate, tagId), hit |-> hit,
                   memoTag |-> IF hit THEN freq.memoTag ELSE TargetTag(fstate, tagId),
                   at |-> clock,
                   stored |-> IF hit THEN freq.stored ELSE clock]
       /\ UNCHANGED clock

\* TaskManagerService.getFilteredTasks
GetFilteredTasks ==
    /\ HostIdle
    /\ FilterRequest("getFilteredTasks", cachedTasks, NoTagArg)
    /\ UNCHANGED refreshVars
    /\ UNCHANGED nonFilter

\* the exported filterTasksByTag(allTasks, tagId)
FilterTasksByTag(allTasks, tagId) ==
    /\ HostIdle
    /\ FilterRequest("filterTasksByTag", allTasks, tagId)
    /\ UNCHANGED refreshVars
    /\ UNCHANGED nonFilter

\* the exported setCurrentSelectedTag(tagId)
SetCurrentSelectedTag(tagId) ==
    /\ HostIdle
    /\ fstate' = setCurrentSelectedTag(fstate, tagId)
    /\ fstate' # fstate
    /\ UNCHANGED <<refreshVars, clock, freq, fres>>
    /\ UNCHANGED nonFilter

\* the exported clearFilterCache()
ClearFilterCache ==
    /\ HostIdle
    /\ fstate' = clearFilterCache(fstate)
    /\ fstate' # fstate
    /\ UNCHANGED <<refreshVars, clock, freq, fres>>
    /\ UNCHANGED nonFilter

\* time passes
Tick(d) ==
    /\ clock + d <= StartTime + MaxElapsed
    /\ clock' = clock + d
    /\ UNCHANGED <<refreshVars, fstate, freq, fres>>
    /\ UNCHANGED nonFilter

-----------------------------------------------------------------------------
(* Commands of TaskManagerService that end in a refresh *)

\* setCurrentTag: TagService.setCurrentTag spawns `use-tag <tagId>`
SetCurrentTag(lim, t) ==
    /\ CanStart(lim)
    /\ Suspend([Chain("usetag") EXCEPT !.target = t])
    /\ UNCHANGED <<tasksFile, configTag, report, currentTag, cachedTasks,
                   cachedResponse, lastEvent, notify, writes, fstate>>
    /\ UNCHANGED nonRefresh

\* the use-tag call settles: outcome is "switched" (the output names the
\* tag), "unrecognised" (it does not) or "rejected" (executeCommand failed)
UseTagDone(outcome) ==
    /\ \E c \in Waiting :
          /\ c.pc = "usetag"
          /\ Resume(c)
          /\ IF outcome = "switched"
             THEN /\ currentTag' = c.target
                  /\ fstate' = setCurrentSelectedTag(fstate, c.target)
                  /\ running' = Chain("call")
             ELSE UNCHANGED <<currentTag, fstate, running>>
    /\ UNCHANGED <<tasksFile, configTag, report, cachedTasks, cachedResponse,
                   lastEvent, notify, writes>>
    /\ UNCHANGED nonRefresh

\* the operations that change the tasks of the project ...
TaskOperations ==
    {"executeTaskCommand", "addTask", "deleteTask", "updateTask", "expandTask",
     "addDependency", "removeDependency"}
\* ... and its subtasks
SubtaskOperations == {"updateSubtask", "setSubtaskStatus", "removeSubtask"}

\* the point of an operation at which the user dismisses a prompt, or at
\* which `show` printed nothing: the operation returns without a further
\* CLI command
Dismissed == "cancel"

\* the CLI commands an operation awaits one after the other, for each way
\* the user can answer its prompts
Plans(op) ==
    CASE op = "executeTaskCommand" -> { <<"set-status">> }
      [] op = "addTask" -> { <<Dismissed>>, <<"add-task">> }
      [] op = "deleteTask" ->
            { <<"validate-dependencies", Dismissed>>,
              <<"validate-dependencies", "remove-task">>,
              <<"validate-dependencies", "fix-dependencies", "remove-task">> }
      [] op = "updateTask" -> { <<Dismissed>>, <<"update-task">> }
      [] op = "expandTask" -> { <<Dismissed>>, <<"expand", "list">> }
      [] op = "addDependency" -> { <<Dismissed>>, <<"add-dependency">> }
      [] op = "removeDependency" ->
            { <<Dismissed>>, <<"show", Dismissed>>, <<"show", "remove-dependency">> }
      [] op = "updateSubtask" -> { <<"update-subtask">> }
      [] op = "setSubtaskStatus" -> { <<"set-status">> }
      [] op = "removeSubtask" -> { <<"remove-subtask">> }

\* every failure of a CLI command caught by the operation that awaits it
ToleratedAll(op, cmd) == TRUE

\* removeDependency catches the failure of `show` and goes on
Tolerated(op, cmd) == op = "removeDependency" /\ cmd = "show"

\* a call of an operation: the command and id passed (id also stands for
\* srcId), the second id or text passed or typed (depId, status, updateText,
\* the dependency ids typed for addTask), whether the workspace is trusted,
\* and the plan the answers of the user select
Call(op, command, id, arg, trusted, plan) ==
    [op |-> op, command |-> command, id |-> id, arg |-> arg,
     trusted |-> trusted, plan |-> plan]

\* !v of a number or string v (NaN is not modelled)
Falsy(v) == v = Num(0) \/ v = Str(<<>>)

\* ValidCall without the test of workspace trust
ValidCallUntrusted(call) ==
    CASE call.op = "executeTaskCommand" ->
            /\ ~Falsy(call.command) /\ IsStr(call.command)
            /\ ~Falsy(call.id) /\ IsNum(call.id) /\ call.id.n >= 1
      [] call.op \in {"updateSubtask", "setSubtaskStatus"} ->
            /\ ~Falsy(call.id) /\ IsStr(call.id)
            /\ ~Falsy(call.arg) /\ IsStr(call.arg)
      [] call.op = "removeSubtask" ->
            /\ ~Falsy(call.id) /\ IsStr(call.id)
      [] call.op = "addTask" ->
            \* parseInt of each dependency id typed: NaN or <= 0 throws
            \/ call.plan = <<Dismissed>>
            \/ Falsy(call.arg)
            \/ IsDigitString(call.arg.s) /\ ParseInt(call.arg.s) > 0
      [] call.op = "addDependency" ->
            \* "A task cannot depend on itself"
            call.plan = <<Dismissed>> \/ call.id # call.arg
      [] OTHER -> TRUE

\* the tests an operation makes before it spawns a CLI process; when one
\* fails it throws, or shows an error
ValidCall(call) ==
    CASE call.op = "executeTaskCommand" ->
            /\ ~Falsy(call.command) /\ IsStr(call.command)
            /\ ~Falsy(call.id) /\ IsNum(call.id) /\ call.id.n >= 1
            /\ call.trusted
      [] call.op \in {"updateSubtask", "setSubtaskStatus"} ->
            /\ ~Falsy(call.id) /\ IsStr(call.id)
            /\ ~Falsy(call.arg) /\ IsStr(call.arg)
            /\ call.trusted
      [] call.op = "removeSubtask" ->
            /\ ~Falsy(call.id) /\ IsStr(call.id)
            /\ call.trusted
      [] call.op = "addTask" ->
            \* parseInt of each dependency id typed: NaN or <= 0 throws
            \/ call.plan = <<Dismissed>>
            \/ Falsy(call.arg)
            \/ IsDigitString(call.arg.s) /\ ParseInt(call.arg.s) > 0
      [] call.op = "addDependency" ->
            \* "A task cannot depend on itself"
            call.plan = <<Dismissed>> \/ call.id # call.arg
      [] OTHER -> TRUE

\* deleteTask, updateTask and expandTask called without a task id show a
\* warning and return
NoTaskId(call) ==
    /\ call.op \in {"deleteTask", "updateTask", "expandTask"}
    /\ Falsy(call.id)

\* what an operation reports: "ok" (true, or the message of success),
\* "failed" (false, an error message, or a rejected promise), "warned" or
\* "cancelled".  executeTaskCommand returns, and the others show their
\* message of success, once the refresh they await has ended; the refresh
\* never throws, so that the report is settled when the last CLI command is.
\* Recorded with it: the call, and how the CLI command the operation awaited
\* last had ended ("none" when it awaited none)
Reported(call, result, cli) == [call |-> call, result |-> result, cli |-> cli]
NotReported == Reported([op |-> "none"], "none", "none")

\* one of the operations is called: it validates its arguments and, unless
\* it returns at once, spawns its first CLI process
Command(lim, call) ==
    /\ CanStart(lim)
    /\ IF ~ValidCall(call)
       THEN /\ opResult' = Reported(call, "failed", "none")
            /\ UNCHANGED <<running, awaiting>>
       ELSE IF NoTaskId(call)
       THEN /\ opResult' = Reported(call, "warned", "none")
            /\ UNCHANGED <<running, awaiting>>
       ELSE IF Head(call.plan) = Dismissed
       THEN /\ opResult' = Reported(call, "cancelled", "none")
            /\ UNCHANGED <<running, awaiting>>
       ELSE /\ Suspend([Chain("cli") EXCEPT
                           !.call = call,
                           !.calls = call.plan,
                           !.retry = /\ call.op = "setSubtaskStatus"
                                     /\ Len(SplitDot(call.id.s)) >= 2])
            /\ UNCHANGED opResult
    /\ UNCHANGED <<tasksFile, configTag, report, currentTag, cachedTasks,
                   cachedResponse, lastEvent, notify, writes, fstate>>
    /\ UNCHANGED nonCommand

\* how a CLI process ends for the operation that awaits it: executeCommand
\* resolves ("ok"), or rejects after a failure or after the timeout
CliOutcomes == {"ok", "failed", "timeout"}

\* the CLI command an operation awaits settles: the operation awaits its
\* next command, calls refreshTasks after the last one, or reports that it
\* failed
CommandDone(outcome) ==
    /\ HostIdle
    /\ \E c \in Waiting :
          /\ c.pc = "cli"
          /\ LET rest == Tail(c.calls)
                 others == awaiting (-) SetToBag({c})
             IN IF outcome = "ok" \/ Tolerated(c.call.op, Head(c.calls))
                THEN IF rest = <<>>
                     THEN /\ awaiting' = others
                          /\ running' = Chain("call")
                          /\ opResult' = Reported(c.call, "ok", outcome)
                     ELSE IF Head(rest) = Dismissed
                     THEN /\ awaiting' = others
                          /\ running' = NoChain
                          /\ opResult' = Reported(c.call, "cancelled", outcome)
                     ELSE /\ awaiting' = others (+) SetToBag({[c EXCEPT !.calls = rest]})
                          /\ UNCHANGED <<running, opResult>>
                ELSE IF c.retry
                THEN \* setSubtaskStatus: `${parentId}.${subtaskId}`
                     /\ awaiting' = others (+) SetToBag({[c EXCEPT !.retry = FALSE]})
                     /\ UNCHANGED <<running, opResult>>
                ELSE /\ awaiting' = others
                     /\ running' = NoChain
                     /\ opResult' = Reported(c.call, "failed", outcome)
    /\ UNCHANGED <<tasksFile, configTag, report, currentTag, cachedTasks,
                   cachedResponse, lastEvent, notify, writes, fstate>>
    /\ UNCHANGED nonCommand

-----------------------------------------------------------------------------
(* CLIService.executeCommand: a child process, its timer and the promise     *)

WhiteSpace == {" ", "\n", "\t"}

\* String.prototype.trim
RECURSIVE Trim(_)
Trim(cs) ==
    IF cs = <<>> THEN cs
    ELSE IF cs[1] \in WhiteSpace THEN Trim(Tail(cs))
    ELSE IF cs[Len(cs)] \in WhiteSpace THEN Trim(SubSeq(cs, 1, Len(cs) - 1))
    ELSE cs

\* the characters a child process writes in this model
OutChars == {" ", "e"}

\* the exit code null of a process ended by a signal
NullCode == -1
ExitCodes == {0, 1, NullCode}

DefaultTimeout == 300000
\* options.timeout: 0 stands for an option left out
TimeoutOptions == {0, 60000}

NoErrorOutput == <<"No error output">>

\* ErrorOutput without the calls of trim
ErrorOutputUntrimmed(stdout, stderr) ==
    IF stderr # <<>> THEN stderr
    ELSE IF stdout # <<>> THEN stdout
    ELSE NoErrorOutput

\* stderr.trim() || stdout.trim() || "No error output"
ErrorOutput(stdout, stderr) ==
    IF Trim(stderr) # <<>> THEN Trim(stderr)
    ELSE IF Trim(stdout) # <<>> THEN Trim(stdout)
    ELSE NoErrorOutput

NoProcess ==
    [state |-> "none", stdout |-> <<>>, stderr |-> <<>>, timer |-> "none",
     timeout |-> 0, killed |-> FALSE, errored |-> FALSE, code |-> 0]

\* spawn(...) and setTimeout(..., options.timeout || 300000)
Spawned(timeoutOpt) ==
    [NoProcess EXCEPT !.state = "running", !.timer = "armed",
                      !.timeout = IF timeoutOpt # 0 THEN timeoutOpt ELSE DefaultTimeout]

Pending == [state |-> "pending", kind |-> "none", value |-> <<>>, code |-> 0, ms |-> 0]

\* a variant of resolve that replaces the outcome of a settled promise
ResolveSettled(p, stdout) ==
    [Pending EXCEPT !.state = "resolved", !.kind = "ok", !.value = stdout]

\* resolve and reject act on a pending promise only
Resolve(p, stdout) ==
    IF p.state # "pending" THEN p
    ELSE [Pending EXCEPT !.state = "resolved", !.kind = "ok", !.value = stdout]

Reject(p, kind, detail, code, ms) ==
    IF p.state # "pending" THEN p
    ELSE [state |-> "rejected", kind |-> kind, value |-> detail, code |-> code, ms |-> ms]

\* childProcess.stdout.on("data")
StdoutData(ch) ==
    /\ xproc.state = "running"
    /\ Len(xproc.stdout) < MaxOut
    /\ xproc' = [xproc EXCEPT !.stdout = Append(@, ch)]
    /\ UNCHANGED <<xpc, xout, xcalls, xop>>
    /\ UNCHANGED nonExec

\* childProcess.stderr.on("data")
StderrData(ch) ==
    /\ xproc.state = "running"
    /\ Len(xproc.stderr) < MaxOut
    /\ xproc' = [xproc EXCEPT !.stderr = Append(@, ch)]
    /\ UNCHANGED <<xpc, xout, xcalls, xop>>
    /\ UNCHANGED nonExec

\* the setTimeout callback
TimeoutFires ==
    /\ xproc.timer = "armed"
    /\ xproc' = [xproc EXCEPT !.timer = "fired", !.killed = TRUE]
    /\ xout' = Reject(xout, "timeout", <<>>, 0, xproc.timeout)
    /\ UNCHANGED <<xpc, xcalls, xop>>
    /\ UNCHANGED nonExec

\* childProcess.on("error")
ProcessError ==
    /\ xproc.state = "running"
    /\ ~xproc.errored
    /\ xproc' = [xproc EXCEPT !.errored = TRUE,
                              !.timer = IF @ = "armed" THEN "cleared" ELSE @]
    /\ xout' = Reject(xout, "spawn", <<>>, 0, 0)
    /\ UNCHANGED <<xpc, xcalls, xop>>
    /\ UNCHANGED nonExec

\* childProcess.on("close")
ProcessClose(code) ==
    /\ xproc.state = "running"
    /\ xproc' = [xproc EXCEPT !.state = "closed", !.code = code,
                              !.timer = IF @ = "armed" THEN "cleared" ELSE @]
    /\ xout' = IF code = 0
               THEN Resolve(xout, xproc.stdout)
               ELSE Reject(xout, "exit", ErrorOutput(xproc.stdout, xproc.stderr), code, 0)
    /\ UNCHANGED <<xpc, xcalls, xop>>
    /\ UNCHANGED nonExec

-----------------------------------------------------------------------------
(* The operations that call executeCommand *)

NoOp == [kind |-> "none", id |-> <<>>, failures |-> <<>>, result |-> "none"]

\* the subtask ids passed to setSubtaskStatus in this model
SubtaskIds == {<<"5">>, <<"4", ".", "1">>}

\* an operation starts and spawns its first CLI process
StartOp(kind, id, timeoutOpt) ==
    /\ xpc' = "awaiting"
    /\ xop' = [NoOp EXCEPT !.kind = kind, !.id = id]
    /\ xproc' = Spawned(timeoutOpt)
    /\ xout' = Pending
    /\ xcalls' = 1
    /\ UNCHANGED nonExec

\* CLIService.executeCommand called with a timeout option
ExecuteCommand(timeoutOpt) ==
    /\ xpc = "idle"
    /\ StartOp("executeCommand", <<>>, timeoutOpt)

\* TaskOperationsService.executeTaskCommand(command, taskId, status)
ExecuteTaskCommand ==
    /\ xpc = "idle"
    /\ StartOp("executeTaskCommand", <<"1">>, 0)

\* TaskOperationsService.setSubtaskStatus(subtaskId, status, onRefresh)
SetSubtaskStatus(id) ==
    /\ xpc = "idle"
    /\ StartOp("setSubtaskStatus", id, 0)

\* the operation's await returns or throws
OpContinues ==
    /\ xpc = "awaiting"
    /\ xout.state # "pending"
    /\ IF xout.state = "resolved"
       THEN /\ xop' = [xop EXCEPT !.result = "ok"]
            /\ xpc' = "done"
            /\ UNCHANGED <<xproc, xout, xcalls>>
       ELSE IF /\ xop.kind = "setSubtaskStatus"
               /\ xop.failures = <<>>
               /\ Len(SplitDot(xop.id)) >= 2
       THEN \* the catch of the first attempt: `${parentId}.${subtaskId}`
            /\ xop' = [xop EXCEPT !.failures = Append(@, xout.kind),
                                  !.id = SplitDot(xop.id)[1] \o <<".">> \o xop.id]
            /\ xproc' = Spawned(0)
            /\ xout' = Pending
            /\ xcalls' = xcalls + 1
            /\ UNCHANGED xpc
       ELSE /\ xop' = [xop EXCEPT !.failures = Append(@, xout.kind),
                                  !.result = "failed"]
            /\ xpc' = "done"
            /\ UNCHANGED <<xproc, xout, xcalls>>
    /\ UNCHANGED nonExec

-----------------------------------------------------------------------------
(* cleanCliOutput (outputParser).  A string is a sequence of UTF-16 code     *)
(* units; "ESC" is the unit \x1b, "BOX" one of the box-drawing glyphs of the *)
(* second replace and "EMOJI" one of the units of the third.                 *)

Esc == "ESC"
AnsiParamChars == Digits \cup {";"}
BoxChars == {"BOX"}
EmojiUnits == {"EMOJI"}

\* the end of the run of [0-9;] that starts at position i
RECURSIVE ParamRunEnd(_, _)
ParamRunEnd(cs, i) ==
    IF i <= Len(cs) /\ cs[i] \in AnsiParamChars THEN ParamRunEnd(cs, i + 1) ELSE i

\* the length of the match of /\x1b\[[0-9;]*m/ at the start of cs, 0 if none
AnsiMatchLen(cs) ==
    IF Len(cs) >= 3 /\ cs[1] = Esc /\ cs[2] = "["
    THEN LET k == ParamRunEnd(cs, 3)
         IN IF k <= Len(cs) /\ cs[k] = "m" THEN k ELSE 0
    ELSE 0

\* cleaned.replace(/\x1b\[[0-9;]*m/g, ""): one pass from left to right
RECURSIVE StripAnsi(_)
StripAnsi(cs) ==
    IF cs = <<>> THEN <<>>
    ELSE LET n == AnsiMatchLen(cs)
         IN IF n > 0 THEN StripAnsi(SubSeq(cs, n + 1, Len(cs)))
            ELSE <<cs[1]>> \o StripAnsi(Tail(cs))

\* cleaned.replace(/[...]/g, "") for a class of single units
StripChars(cs, class) == SelectSeq(cs, LAMBDA c : c \notin class)

\* cs without the white space it starts with
RECURSIVE SkipWhiteSpace(_)
SkipWhiteSpace(cs) ==
    IF cs # <<>> /\ cs[1] \in WhiteSpace THEN SkipWhiteSpace(Tail(cs)) ELSE cs

\* cleaned.replace(/\s+/g, " ")
RECURSIVE CollapseWhiteSpace(_)
CollapseWhiteSpace(cs) ==
    IF cs = <<>> THEN <<>>
    ELSE IF cs[1] \in WhiteSpace
    THEN <<" ">> \o CollapseWhiteSpace(SkipWhiteSpace(cs))
    ELSE <<cs[1]>> \o CollapseWhiteSpace(Tail(cs))

cleanCliOutput(rawOutput) ==
    IF rawOutput = <<>> THEN <<>>
    ELSE Trim(CollapseWhiteSpace(
            StripChars(StripChars(StripAnsi(rawOutput), BoxChars), EmojiUnits)))

\* the units of the raw outputs in this model
CleanChars == {Esc, "[", "1", ";", "m", "BOX", "EMOJI", " ", "a"}

CleanInputs == UNION {[1..n -> CleanChars] : n \in 0..MaxCleanLen}

\* cleanCliOutput is applied to the raw output, then to what it returned
CleanCliOutput ==
    /\ Len(cleanOut) < 2
    /\ cleanOut' = Append(cleanOut,
                      cleanCliOutput(IF cleanOut = <<>> THEN cleanIn
                                     ELSE cleanOut[Len(cleanOut)]))
    /\ UNCHANGED <<cleanIn, refreshVars, filterVars, execVars, depsVars, utilVars, svcVars>>

-----------------------------------------------------------------------------
(* outputParser: the parsers of the CLI's output.  A text is a sequence of   *)
(* characters, a message is a record with its text and, for a template, the  *)
(* values put into it.                                                       *)

LowerLetters == {"a", "b", "c", "d", "e", "f", "g", "h", "i", "j", "k", "l", "m", "n",
                 "o", "p", "q", "r", "s", "t", "u", "v", "w", "x", "y", "z"}
UpperLetters == {"A", "B", "C", "D", "E", "F", "G", "H", "I", "J", "K", "L", "M", "N",
                 "O", "P", "Q", "R", "S", "T", "U", "V", "W", "X", "Y", "Z"}

\* the characters that \w matches
WordChars == LowerLetters \cup UpperLetters \cup Digits \cup {"_"}

\* the lower-case form of a character, for the regular expressions with /i
ToLowerCase(c) ==
    CASE c = "A" -> "a" [] c = "B" -> "b" [] c = "C" -> "c" [] c = "D" -> "d"
      [] c = "E" -> "e" [] c = "F" -> "f" [] c = "G" -> "g" [] c = "H" -> "h"
      [] c = "I" -> "i" [] c = "J" -> "j" [] c = "K" -> "k" [] c = "L" -> "l"
      [] c = "M" -> "m" [] c = "N" -> "n" [] c = "O" -> "o" [] c = "P" -> "p"
      [] c = "Q" -> "q" [] c = "R" -> "r" [] c = "S" -> "s" [] c = "T" -> "t"
      [] c = "U" -> "u" [] c = "V" -> "v" [] c = "W" -> "w" [] c = "X" -> "x"
      [] c = "Y" -> "y" [] c = "Z" -> "z"
      [] OTHER -> c

\* cleaned.includes(lit)
Includes(cs, lit) ==
    \E i \in 1..(Len(cs) - Len(lit) + 1) : SubSeq(cs, i, i + Len(lit) - 1) = lit

\* the literal lit matches at position i of cs; ci tells whether the regular
\* expression has the flag i
LitMatches(cs, i, lit, ci) ==
    /\ i + Len(lit) - 1 <= Len(cs)
    /\ \A k \in 1..Len(lit) :
          IF ci THEN ToLowerCase(cs[i + k - 1]) = ToLowerCase(lit[k])
          ELSE cs[i + k - 1] = lit[k]

\* the position after the longest run of characters of class that starts at i
RECURSIVE RunEnd(_, _, _)
RunEnd(cs, i, class) ==
    IF i <= Len(cs) /\ cs[i] \in class THEN RunEnd(cs, i + 1, class) ELSE i

Least(S) == CHOOSE i \in S : \A j \in S : i <= j

\* the value of match[1] when there is no match; a group of a + is never empty
NoMatch == <<>>

\* cs.match(/lit(class+)/)[1]: the group of the leftmost match
Capture(cs, lit, class, ci) ==
    LET starts == {i \in 1..Len(cs) :
                      /\ LitMatches(cs, i, lit, ci)
                      /\ i + Len(lit) <= Len(cs)
                      /\ cs[i + Len(lit)] \in class}
    IN IF starts = {} THEN NoMatch
       ELSE LET a == Least(starts) + Len(lit)
            IN SubSeq(cs, a, RunEnd(cs, a, class) - 1)

\* matchResult ? parseInt(matchResult[1]) : undefined
ParsedId(capture) == IF capture = NoMatch THEN Undefined ELSE ParseInt(capture)

\* a value used as a condition: undefined and 0 are false
Truthy(taskId) == taskId # Undefined /\ taskId # 0

Message(text) == [text |-> text]

TaskToken == <<"t", "a", "s", "k", " ">>
IdToken == <<"I", "D", ":", " ">>

\* parseNextTaskOutput: the pattern /Next Task: #([\d.]+) -/
NextTaskHeader == <<"N", "e", "x", "t", " ", "T", "a", "s", "k", ":", " ", "#">>
NextTaskEnd == <<" ", "-">>

\* NextTaskIdChars without the dot
NextTaskIdCharsDigits == Digits

\* the characters of [\d.]
NextTaskIdChars == Digits \cup {"."}

\* the positions at which the pattern matches: the run of [\d.] is taken as
\* long as it goes, and " -" has to follow it
NextTaskStarts(cs) ==
    {i \in 1..Len(cs) :
        /\ LitMatches(cs, i, NextTaskHeader, FALSE)
        /\ LET a == i + Len(NextTaskHeader)
               b == RunEnd(cs, a, NextTaskIdChars)
           IN b > a /\ LitMatches(cs, b, NextTaskEnd, FALSE)}

parseNextTaskOutput(rawOutput) ==
    IF rawOutput = <<>>
    THEN [success |-> FALSE, message |-> Message("No output received")]
    ELSE IF NextTaskStarts(rawOutput) = {}
    THEN [success |-> FALSE, message |-> Message("No next task found")]
    ELSE LET a == Least(NextTaskStarts(rawOutput)) + Len(NextTaskHeader)
             taskIdStr == SubSeq(rawOutput, a, RunEnd(rawOutput, a, NextTaskIdChars) - 1)
             isSubtask == \E k \in 1..Len(taskIdStr) : taskIdStr[k] = "."
         IN [success |-> TRUE,
             id |-> IF isSubtask THEN Str(taskIdStr) ELSE Num(ParseInt(taskIdStr)),
             isSubtask |-> isSubtask]

\* the texts that the parsers look for and put together, by name
Kw ==
    [ noIssuesFound |->
        <<"N", "o", " ", "d", "e", "p", "e", "n", "d", "e", "n", "c",
          "y", " ", "i", "s", "s", "u", "e", "s", " ", "f", "o", "u",
          "n", "d">>,
     allValid |->
        <<"A", "l", "l", " ", "D", "e", "p", "e", "n", "d", "e", "n",
          "c", "i", "e", "s", " ", "A", "r", "e", " ", "V", "a", "l",
          "i", "d">>,
     noChanges |->
        <<"N", "o", " ", "c", "h", "a", "n", "g", "e", "s", " ", "n",
          "e", "e", "d", "e", "d">>,
     dependenciesFixed |->
        <<"D", "e", "p", "e", "n", "d", "e", "n", "c", "i", "e", "s", " ", "f", "i", "x", "e", "d">>,
     fixed |->
        <<"F", "i", "x", "e", "d">>,
     tasksChecked |->
        <<"T", "a", "s", "k", "s", " ", "c", "h", "e", "c", "k", "e",
          "d", ":", " ">>,
     depsVerified |->
        <<"d", "e", "p", "e", "n", "d", "e", "n", "c", "i", "e", "s", " ", "v", "e", "r", "i", "f", "i", "e", "d", ":", " ">>,
     txtTasksChecked |->
        <<" ", "t", "a", "s", "k", "s", " ", "c", "h", "e", "c", "k",
          "e", "d">>,
     txtDepsVerified |->
        <<" ", "d", "e", "p", "e", "n", "d", "e", "n", "c", "i", "e",
          "s", " ", "v", "e", "r", "i", "f", "i", "e", "d">>,
     error |->
        <<"e", "r", "r", "o", "r">>,
     invalid |->
        <<"i", "n", "v", "a", "l", "i", "d">>,
     circular |->
        <<"c", "i", "r", "c", "u", "l", "a", "r">>,
     removed |->
        <<"r", "e", "m", "o", "v", "e", "d">>,
     deleted |->
        <<"d", "e", "l", "e", "t", "e", "d">>,
     notFound |->
        <<"n", "o", "t", " ", "f", "o", "u", "n", "d">>,
     doesNotExist |->
        <<"d", "o", "e", "s", " ", "n", "o", "t", " ", "e", "x", "i",
          "s", "t">>,
     created |->
        <<"c", "r", "e", "a", "t", "e", "d">>,
     added |->
        <<"a", "d", "d", "e", "d">>,
     from |->
        <<"F", "r", "o", "m", ":", " ">>,
     to |->
        <<"T", "o", ":", " ">>,
     updatedTask |->
        <<"U", "p", "d", "a", "t", "e", "d", " ", "t", "a", "s", "k", " ">>,
     statusFrom |->
        <<" ", "s", "t", "a", "t", "u", "s", " ", "f", "r", "o", "m", " ", "'">>,
     quoteTo |->
        <<"'", " ", "t", "o", " ", "'">>,
     successfullyUpdated |->
        <<"S", "u", "c", "c", "e", "s", "s", "f", "u", "l", "l", "y", " ", "u", "p", "d", "a", "t", "e", "d">>,
     statusUpdated |->
        <<"s", "t", "a", "t", "u", "s", " ", "u", "p", "d", "a", "t",
          "e", "d">>,
     failed |->
        <<"f", "a", "i", "l", "e", "d">>]

parseDependencyFixOutput(rawOutput) ==
    LET cleaned == cleanCliOutput(rawOutput)
    IN IF \/ Includes(cleaned, Kw.noIssuesFound)
          \/ Includes(cleaned, Kw.allValid)
          \/ Includes(cleaned, Kw.noChanges)
       THEN [success |-> TRUE,
             message |-> Message("All dependencies are valid - no fixes needed")]
       ELSE IF Includes(cleaned, Kw.dependenciesFixed) \/ Includes(cleaned, Kw.fixed)
       THEN LET taskMatch == Capture(cleaned, Kw.tasksChecked, Digits, FALSE)
                depMatch  == Capture(cleaned, Kw.depsVerified, Digits, FALSE)
                first     == IF taskMatch # NoMatch THEN taskMatch \o Kw.txtTasksChecked
                             ELSE <<>>
                details   == IF depMatch = NoMatch THEN first
                             ELSE IF first # <<>>
                             THEN first \o <<",", " ">> \o depMatch \o Kw.txtDepsVerified
                             ELSE depMatch \o Kw.txtDepsVerified
            IN [success |-> TRUE,
                message |-> Message("Dependencies have been fixed successfully"),
                details |-> details]
       ELSE [success |-> FALSE, message |-> Message("Dependency fix completed"),
             details |-> cleaned]

parseDependencyValidationOutput(rawOutput) ==
    LET cleaned == cleanCliOutput(rawOutput)
    IN IF Includes(cleaned, Kw.noIssuesFound) \/ Includes(cleaned, Kw.allValid)
       THEN [success |-> TRUE, message |-> Message("All dependencies are valid")]
       ELSE IF \/ Includes(cleaned, Kw.error)
               \/ Includes(cleaned, Kw.invalid)
               \/ Includes(cleaned, Kw.circular)
       THEN [success |-> FALSE,
             message |-> Message("Dependency validation found issues"),
             details |-> cleaned]
       ELSE [success |-> TRUE, message |-> Message("Dependency validation completed"),
             details |-> cleaned]

\* a message with the task id in it if the id is neither undefined nor 0
IdMessage(taskId, withId, without) ==
    IF Truthy(taskId) THEN [text |-> withId, taskId |-> taskId] ELSE Message(without)

parseTaskDeletionOutput(rawOutput) ==
    LET cleaned == cleanCliOutput(rawOutput)
        taskId  == ParsedId(Capture(cleaned, TaskToken, Digits, TRUE))
    IN IF Includes(cleaned, Kw.removed) \/ Includes(cleaned, Kw.deleted)
       THEN [success |-> TRUE,
             message |-> IdMessage(taskId, "Task ${taskId} has been deleted",
                                   "Task has been deleted"),
             taskId |-> taskId]
       ELSE IF Includes(cleaned, Kw.notFound) \/ Includes(cleaned, Kw.doesNotExist)
       THEN [success |-> FALSE,
             message |-> IdMessage(taskId, "Task ${taskId} was not found",
                                   "Task was not found"),
             taskId |-> taskId]
       ELSE [success |-> FALSE, message |-> Message("Failed to delete task"),
             taskId |-> taskId]

\* CreationKeywords without "added"
CreationKeywordsCreated == {Kw.created}

\* the words of which one makes a task-creation output a success
CreationKeywords == {Kw.created, Kw.added}

parseTaskCreationOutput(rawOutput) ==
    LET cleaned     == cleanCliOutput(rawOutput)
        taskMatch   == Capture(cleaned, TaskToken, Digits, TRUE)
        taskIdMatch == IF taskMatch # NoMatch THEN taskMatch
                       ELSE Capture(cleaned, IdToken, Digits, TRUE)
        taskId      == ParsedId(taskIdMatch)
    IN IF \E kw \in CreationKeywords : Includes(cleaned, kw)
       THEN [success |-> TRUE,
             message |-> IdMessage(taskId, "Task ${taskId} has been created",
                                   "Task has been created"),
             taskId |-> taskId]
       ELSE [success |-> FALSE, message |-> Message("Failed to create task"),
             taskId |-> taskId]

\* the positions at which /Updated task \d+ status from '(\w+)' to '(\w+)'/i
\* matches, and the two groups of a match at position i
StatusUpdateGroups(cs, i) ==
    LET a == i + Len(Kw.updatedTask)
        b == RunEnd(cs, a, Digits)
        c == b + Len(Kw.statusFrom)
        e == RunEnd(cs, c, WordChars)
        f == e + Len(Kw.quoteTo)
        g == RunEnd(cs, f, WordChars)
    IN [matches |-> /\ LitMatches(cs, i, Kw.updatedTask, TRUE)
                    /\ b > a /\ LitMatches(cs, b, Kw.statusFrom, TRUE)
                    /\ e > c /\ LitMatches(cs, e, Kw.quoteTo, TRUE)
                    /\ g > f /\ g <= Len(cs) /\ cs[g] = "'",
        old |-> SubSeq(cs, c, e - 1),
        new |-> SubSeq(cs, f, g - 1)]

StatusUpdateStarts(cs) == {i \in 1..Len(cs) : StatusUpdateGroups(cs, i).matches}

parseStatusChangeOutput(rawOutput) ==
    LET cleaned   == cleanCliOutput(rawOutput)
        taskId    == ParsedId(Capture(cleaned, TaskToken, Digits, TRUE))
        oldStatus == Capture(cleaned, Kw.from, WordChars, TRUE)
        newStatus == Capture(cleaned, Kw.to, WordChars, TRUE)
    IN IF (oldStatus = NoMatch \/ newStatus = NoMatch) /\ StatusUpdateStarts(cleaned) # {}
       THEN LET m == StatusUpdateGroups(cleaned, Least(StatusUpdateStarts(cleaned)))
            IN [success |-> TRUE,
                message |-> IF Truthy(taskId)
                            THEN [text |-> "Task ${taskId} status changed from '${old}' to '${new}'",
                                  taskId |-> taskId, old |-> m.old, new |-> m.new]
                            ELSE Message("Task status updated successfully"),
                taskId |-> taskId, oldStatus |-> m.old, newStatus |-> m.new]
       ELSE IF Includes(cleaned, Kw.successfullyUpdated) \/ Includes(cleaned, Kw.statusUpdated)
       THEN [success |-> TRUE,
             message |-> IF Truthy(taskId) /\ oldStatus # NoMatch /\ newStatus # NoMatch
                         THEN [text |-> "Task ${taskId} status changed from '${old}' to '${new}'",
                               taskId |-> taskId, old |-> oldStatus, new |-> newStatus]
                         ELSE IF Truthy(taskId) /\ newStatus # NoMatch
                         THEN [text |-> "Task ${taskId} status changed to '${new}'",
                               taskId |-> taskId, new |-> newStatus]
                         ELSE Message("Task status updated successfully"),
             taskId |-> taskId, oldStatus |-> oldStatus, newStatus |-> newStatus]
       ELSE IF \/ Includes(cleaned, Kw.error)
               \/ Includes(cleaned, Kw.failed)
               \/ Includes(cleaned, Kw.notFound)
       THEN [success |-> FALSE,
             message |-> IdMessage(taskId, "Failed to update task ${taskId} status",
                                   "Failed to update task status"),
             taskId |-> taskId]
       ELSE [success |-> TRUE, message |-> Message("Task status updated"),
             taskId |-> taskId]

-----------------------------------------------------------------------------
(* fixStringDependencies applied to a task list *)

\* the dependency entries of the inputs: a number, digit strings (one with a
\* leading zero), a subtask reference and the empty string
DepValues == {Num(2), Str(<<"2">>), Str(<<"0", "7">>), Str(<<"1", ".", "2">>),
              Str(<<>>)}

\* the dependencies fields of the inputs: absent, or a list of entries
DepLists == {AbsentField} \cup UNION {[1..n -> DepValues] : n \in 0..MaxDeps}

\* task 1 with dependencies d, and with no subtasks field or with one
\* subtask that has dependencies e; task 2 with the one dependency v
DepTask1(d, e, withSubtask) ==
    Task(1, "pending", d,
         IF withSubtask THEN <<Subtask(Num(1), "done", e)>> ELSE AbsentField)
DepTask2(v) == Task(2, "done", <<v>>, <<>>)

\* the task lists of the inputs: none, task 1, or tasks 1 and 2 in either order
DepShapes == {"none", "one", "two", "swapped"}

DepInput(shape, t, u) ==
    CASE shape = "none"    -> <<>>
      [] shape = "one"     -> <<t>>
      [] shape = "two"     -> <<t, u>>
      [] shape = "swapped" -> <<u, t>>

NotApplied == [done |-> FALSE, tasks |-> <<>>]

FixStringDependencies ==
    /\ ~depsOut.done
    /\ depsOut' = [done |-> TRUE, tasks |-> fixStringDependencies(depsIn)]
    /\ UNCHANGED <<depsIn, refreshVars, filterVars, execVars, cleanVars, utilVars, svcVars>>

-----------------------------------------------------------------------------
(* fixSubtaskIds applied to a task list, and then to the list it returned *)

\* the subtask ids of the inputs: numbers, ids of the form "<parentId>.<n>"
\* for the parents 1 and 12, and strings of other forms
SubIdValues == {Num(1), Num(3), Str(<<"1", ".", "1">>), Str(<<"1", ".", "7">>),
                Str(<<"1", "2", ".", "1">>), Str(<<"1", ".", "1", ".", "1">>),
                Str(<<"1", ".">>), Str(<<"1">>), Str(<<".", "1">>)}

SubInputSubtask(v) == Subtask(v, "pending", <<>>)

\* the subtasks fields of the inputs: absent, or a list of subtasks
SubLists == {AbsentField} \cup
            UNION {[1..n -> {SubInputSubtask(v) : v \in SubIdValues}] : n \in 0..MaxSubs}

\* task 1 with the subtasks l; task 12 with no subtasks field or one subtask
SubTask1(l) == Task(1, "pending", <<>>, l)
SubTask12(w) ==
    Task(12, "done", <<>>,
         IF w = Num(0) THEN AbsentField ELSE <<SubInputSubtask(w)>>)

FixSubtaskIds ==
    /\ Len(subOut) < 2
    /\ subOut' = Append(subOut,
                    fixSubtaskIds(IF subOut = <<>> THEN subIn
                                  ELSE subOut[Len(subOut)].tasks))
    /\ UNCHANGED <<subIn, mergeVars, statsVars, parseVars, tagVars>>
    /\ UNCHANGED <<refreshVars, filterVars, execVars, cleanVars, depsVars, svcVars>>

-----------------------------------------------------------------------------
(* mergeComplexityScores applied to a task list and a report *)

NotMerged == [done |-> FALSE, tasks |-> <<>>]

\* the analyses of the inputs: for task 1, task 2 and a task 3 that is in no
\* list, with the score 0 or 7
MergeAnalyses == {Analysis(k, sc) : k \in {1, 2, 3}, sc \in {0, 7}}

\* the reports of the inputs: null, or a report with a list of analyses
MergeReports == {NoReport} \cup
                {Report(l) : l \in UNION {[1..n -> MergeAnalyses] : n \in 0..MaxAnalyses}}

MergeTask1 == Task(1, "pending", <<>>, <<>>)
MergeTask2 == Task(2, "done", <<Num(1)>>, AbsentField)

\* MergeComplexityScores with the score assigned to the task passed in
MergeComplexityScoresInPlace ==
    /\ ~mergeOut.done
    /\ mergeOut' = [done |-> TRUE, passed |-> mergeIn,
                    tasks |-> mergeComplexityScores(mergeIn.tasks, mergeIn.report)]
    /\ mergeIn' = [mergeIn EXCEPT !.tasks = mergeOut'.tasks]
    /\ UNCHANGED <<subVars, statsVars, parseVars, tagVars>>
    /\ UNCHANGED <<refreshVars, filterVars, execVars, cleanVars, depsVars, svcVars>>

\* the call: no statement of the function assigns to a task passed in or to
\* the report, a task with an analysis is copied by { ...task, complexityScore }
MergeComplexityScores ==
    /\ ~mergeOut.done
    /\ mergeOut' = [done |-> TRUE, passed |-> mergeIn,
                    tasks |-> mergeComplexityScores(mergeIn.tasks, mergeIn.report)]
    /\ UNCHANGED <<mergeIn, subVars, statsVars, parseVars, tagVars>>
    /\ UNCHANGED <<refreshVars, filterVars, execVars, cleanVars, depsVars, svcVars>>

-----------------------------------------------------------------------------
(* calculateStats applied to a task list *)

NotCounted == [done |-> FALSE]

StatStatuses == TaskStatuses \cup {UnknownStatus}

\* the subtasks fields of the inputs: absent, or a list of subtasks
StatSubLists ==
    {AbsentField} \cup
    UNION {[1..n -> {Subtask(Num(1), st, <<>>) : st \in StatStatuses}] : n \in 0..MaxStatSubs}

\* a task of any status with any of these subtasks fields, and a second task
\* that is done or in review and has one subtask that is done
StatTask1(st, l) == Task(1, st, <<>>, l)
StatTask2(st) == Task(2, st, <<>>, <<Subtask(Num(1), "done", <<>>)>>)

CalculateStats ==
    /\ ~statsOut.done
    /\ statsOut' = [done |-> TRUE, stats |-> calculateStats(statsIn)]
    /\ UNCHANGED <<statsIn, subVars, mergeVars, parseVars, tagVars>>
    /\ UNCHANGED <<refreshVars, filterVars, execVars, cleanVars, depsVars, svcVars>>

-----------------------------------------------------------------------------
(* The output parsers applied to a raw output *)

NotParsed == [fn |-> "none"]

\* the text made of the fragments of a list, one after the other
RECURSIVE Concat(_)
Concat(frags) == IF frags = <<>> THEN <<>> ELSE Head(frags) \o Concat(Tail(frags))

\* an ANSI colour code
AnsiBold == <<Esc, "[", "1", "m">>

\* the fragments of the outputs passed to parseNextTaskOutput
NextTaskFrags ==
    {NextTaskHeader, <<"1", "3">>, <<".", "2">>, NextTaskEnd, AnsiBold, <<" ">>,
     <<"x">>, <<"N", "o", " ", "n", "e", "x", "t", " ", "t", "a", "s", "k", " ", "f", "o", "u", "n", "d", ".">>}

\* a parser is applied to the raw output and to the cleaned output
Parsed(fn, result, onCleaned) == [fn |-> fn, result |-> result, onCleaned |-> onCleaned]

ParseNextTaskOutput ==
    /\ parseOut = NotParsed
    /\ parseOut' = Parsed("parseNextTaskOutput", parseNextTaskOutput(parseIn),
                          parseNextTaskOutput(cleanCliOutput(parseIn)))
    /\ UNCHANGED <<parseIn, subVars, mergeVars, statsVars, tagVars>>
    /\ UNCHANGED <<refreshVars, filterVars, execVars, cleanVars, depsVars, svcVars>>

\* fragments of the outputs passed to the parsers, besides the texts they
\* look for
Fr ==
    [ garbage |->
        <<"x", "y", "z", " ">>,
     task42Created |->
        <<"T", "a", "s", "k", " ", "4", "2", " ", "h", "a", "s", " ",
          "b", "e", "e", "n", " ", "c", "r", "e", "a", "t", "e", "d">>,
     subtask3 |->
        <<"S", "u", "b", "t", "a", "s", "k", " ", "3", " ">>,
     id7 |->
        <<"I", "D", ":", " ", "7", " ">>,
     task0 |->
        <<"t", "a", "s", "k", " ", "0", " ">>,
     fixedChecked |->
        <<"F", "i", "x", "e", "d", " ", "T", "a", "s", "k", "s", " ",
          "c", "h", "e", "c", "k", "e", "d", ":", " ", "5", " ">>,
     verified |->
        <<"d", "e", "p", "e", "n", "d", "e", "n", "c", "i", "e", "s", " ", "v", "e", "r", "i", "f", "i", "e", "d", ":", " ", "2">>,
     fromTo |->
        <<"F", "r", "o", "m", ":", " ", "p", "e", "n", "d", "i", "n",
          "g", " ", "T", "o", ":", " ", "d", "o", "n", "e", " ">>,
     updated |->
        <<"U", "p", "d", "a", "t", "e", "d", " ", "t", "a", "s", "k", " ", "4", " ", "s", "t", "a", "t", "u", "s", " ", "f", "r", "o",
          "m", " ", "'", "p", "e", "n", "d", "i", "n", "g", "'", " ",
          "t", "o", " ", "'", "d", "o", "n", "e", "'">>]

ParserFrags ==
    {Fr.garbage, Fr.task42Created, Fr.subtask3, Fr.id7, Fr.task0, Fr.fixedChecked,
     Fr.verified, Fr.fromTo, Fr.updated, AnsiBold, Kw.added, Kw.removed, Kw.notFound,
     Kw.error, Kw.allValid, Kw.circular, Kw.successfullyUpdated \o <<" ">>}

ParseDependencyFixOutput ==
    /\ parseOut = NotParsed
    /\ parseOut' = Parsed("parseDependencyFixOutput", parseDependencyFixOutput(parseIn),
                          parseDependencyFixOutput(cleanCliOutput(parseIn)))
    /\ UNCHANGED <<parseIn, subVars, mergeVars, statsVars, tagVars>>
    /\ UNCHANGED <<refreshVars, filterVars, execVars, cleanVars, depsVars, svcVars>>

ParseDependencyValidationOutput ==
    /\ parseOut = NotParsed
    /\ parseOut' = Parsed("parseDependencyValidationOutput",
                          parseDependencyValidationOutput(parseIn),
                          parseDependencyValidationOutput(cleanCliOutput(parseIn)))
    /\ UNCHANGED <<parseIn, subVars, mergeVars, statsVars, tagVars>>
    /\ UNCHANGED <<refreshVars, filterVars, execVars, cleanVars, depsVars, svcVars>>

ParseTaskDeletionOutput ==
    /\ parseOut = NotParsed
    /\ parseOut' = Parsed("parseTaskDeletionOutput", parseTaskDeletionOutput(parseIn),
                          parseTaskDeletionOutput(cleanCliOutput(parseIn)))
    /\ UNCHANGED <<parseIn, subVars, mergeVars, statsVars, tagVars>>
    /\ UNCHANGED <<refreshVars, filterVars, execVars, cleanVars, depsVars, svcVars>>

ParseTaskCreationOutput ==
    /\ parseOut = NotParsed
    /\ parseOut' = Parsed("parseTaskCreationOutput", parseTaskCreationOutput(parseIn),
                          parseTaskCreationOutput(cleanCliOutput(parseIn)))
    /\ UNCHANGED <<parseIn, subVars, mergeVars, statsVars, tagVars>>
    /\ UNCHANGED <<refreshVars, filterVars, execVars, cleanVars, depsVars, svcVars>>

ParseStatusChangeOutput ==
    /\ parseOut = NotParsed
    /\ parseOut' = Parsed("parseStatusChangeOutput", parseStatusChangeOutput(parseIn),
                          parseStatusChangeOutput(cleanCliOutput(parseIn)))
    /\ UNCHANGED <<parseIn, subVars, mergeVars, statsVars, tagVars>>
    /\ UNCHANGED <<refreshVars, filterVars, execVars, cleanVars, depsVars, svcVars>>

\*PARSE*

-----------------------------------------------------------------------------
(* The current tag of a parsed tasks file *)

\* the tag that a function which was not called resolved
NoTag == ""

NotResolved == [cli |-> NoTag, helper |-> NoTag]

\* the tag names of the files in this model
TagNames == Tags \cup {"dev"}

DefaultTag == "master"

\* an entry of the tags map of tasks.json, under the key name
TagEntry(name, current) == [name |-> name, current |-> current]

\* the entries that have current: true, by position in the order of the keys
CurrentEntries(tags) == {i \in 1..Len(tags) : tags[i].current}

\* CLIService.getCurrentTag: the first key whose entry is current, else the
\* first key of all, else "master"
getCurrentTag(tags) ==
    IF CurrentEntries(tags) # {} THEN tags[Least(CurrentEntries(tags))].name
    ELSE IF tags # <<>> THEN tags[1].name
    ELSE DefaultTag

\* the loop of readTasksFile: "master" unless an entry is current
readTasksFileCurrentTag(tags) ==
    IF CurrentEntries(tags) # {} THEN tags[Least(CurrentEntries(tags))].name
    ELSE DefaultTag

\* CLIService.getTasksFromFile resolves the current tag of the parsed file
GetCurrentTag ==
    /\ tagOut.cli = NoTag
    /\ tagOut' = [tagOut EXCEPT !.cli = getCurrentTag(tagIn)]
    /\ UNCHANGED <<tagIn, subVars, mergeVars, statsVars, parseVars>>
    /\ UNCHANGED <<refreshVars, filterVars, execVars, cleanVars, depsVars, svcVars>>

\* readTasksFile resolves the current tag of the parsed file
ReadTasksFile ==
    /\ tagOut.helper = NoTag
    /\ tagOut' = [tagOut EXCEPT !.helper = readTasksFileCurrentTag(tagIn)]
    /\ UNCHANGED <<tagIn, subVars, mergeVars, statsVars, parseVars>>
    /\ UNCHANGED <<refreshVars, filterVars, execVars, cleanVars, depsVars, svcVars>>

-----------------------------------------------------------------------------
(* CLIService.checkCLIVersion *)

\* how executeCommand("--version") ended ("ok", "failed" or "timeout") and
\* the text it resolved with
VersionRun(kind, text) == [kind |-> kind, text |-> text]

\* the match of /(\d+)\.(\d+)\.(\d+)/ that starts at position i of cs, as
\* the array [match, group 1, group 2, group 3]; <<>> if there is none.  Each
\* \d+ takes the whole run of digits: a shorter one is followed by a digit
MatchVersionAt(cs, i) ==
    LET a == RunEnd(cs, i, Digits)
    IN IF a = i \/ a > Len(cs) \/ cs[a] # "." THEN <<>>
       ELSE LET b == RunEnd(cs, a + 1, Digits)
            IN IF b = a + 1 \/ b > Len(cs) \/ cs[b] # "." THEN <<>>
               ELSE LET c == RunEnd(cs, b + 1, Digits)
                    IN IF c = b + 1 THEN <<>>
                       ELSE << SubSeq(cs, i, c - 1), SubSeq(cs, i, a - 1),
                               SubSeq(cs, a + 1, b - 1), SubSeq(cs, b + 1, c - 1) >>

\* versionOutput.match(/(\d+)\.(\d+)\.(\d+)/): the leftmost match
MatchVersion(cs) ==
    LET starts == {i \in 1..Len(cs) : MatchVersionAt(cs, i) # <<>>}
    IN IF starts = {} THEN <<>> ELSE MatchVersionAt(cs, Least(starts))

minRequiredVersion == <<"1", "7">>

NoText == <<>>
CouldNotParse == <<"Could not parse CLI version from output">>
BelowMinimum == <<"CLI version is below minimum required version">>
FailedToCheck == <<"Failed to check CLI version">>

\* the body of checkCLIVersion after executeCommand settled; versionMatch[2]
\* of the source is the third element here
checkCLIVersion(run) ==
    IF run.kind # "ok"
    THEN [isValid |-> FALSE, currentVersion |-> NoText, error |-> FailedToCheck]
    ELSE LET versionMatch == MatchVersion(run.text)
         IN IF versionMatch = <<>>
            THEN [isValid |-> FALSE, currentVersion |-> NoText, error |-> CouldNotParse]
            ELSE LET actualVersion == ParseInt(versionMatch[3])
                     minRequired == ParseInt(minRequiredVersion)
                     isValid == actualVersion >= minRequired
                 IN [isValid |-> isValid, currentVersion |-> versionMatch[1],
                     error |-> IF isValid THEN NoText ELSE BelowMinimum]

NotChecked == [none |-> TRUE]

CheckCLIVersion ==
    /\ verOut = NotChecked
    /\ verOut' = checkCLIVersion(verIn)
    /\ UNCHANGED <<verIn, opVars, nxtVars, iniVars, refreshVars, filterVars, execVars,
                   cleanVars, depsVars, utilVars>>

-----------------------------------------------------------------------------
(* TaskManagerService.getNextTaskOrSubtask *)

\* how getNextTaskFromCLI ended ("ok", "failed" or "timeout") and the text
\* it resolved with
CliRun(kind, text) == [kind |-> kind, text |-> text]

\* a call of getNextTaskOrSubtask: the run of `next`, the cached tasks, and
\* the id the output names (<<>> if it names none)
NextCall(run, cache, names) == [run |-> run, cache |-> cache, names |-> names]

\* TaskCacheService.getTask: cachedTasks.find((task) => task.id === id)
getTask(cache, id) ==
    LET found == {i \in 1..Len(cache) : IsNum(id) /\ cache[i].id = id.n}
    IN IF found = {} THEN NULL ELSE cache[Least(found)]

\* TaskCacheService.getNextTask: the first pending task with an empty array
\* of dependencies
getNextTask(cache) ==
    LET found == {i \in 1..Len(cache) :
                     /\ cache[i].status = "pending"
                     /\ IsArray(cache[i].dependencies)
                     /\ Len(cache[i].dependencies) = 0}
    IN IF found = {} THEN NULL ELSE cache[Least(found)]

\* { ...subtask, parentId: parentId }
WithParent(sub, parentId) ==
    [f \in DOMAIN sub \cup {"parentId"} |-> IF f = "parentId" THEN parentId ELSE sub[f]]

findSubtaskById(cache, parentId, subtaskId) ==
    LET parentTask == getTask(cache, Num(parentId))
    IN IF parentTask = NULL THEN NULL
       ELSE IF ~IsArray(parentTask.subtasks) THEN NULL
       ELSE LET subs == parentTask.subtasks
                found == {i \in 1..Len(subs) :
                             \/ subs[i].id = Num(ParseInt(subtaskId))
                             \/ subs[i].id = Str(NumToString(parentId) \o <<".">> \o subtaskId)}
            IN IF found = {} THEN NULL
               ELSE WithParent(subs[Least(found)], parentId)

TaskResult(task) == [type |-> "task", task |-> task]
SubtaskResult(subtask) == [type |-> "subtask", subtask |-> subtask]

\* the fallback of getNextTaskOrSubtask, after the try block and in catch
Fallback(cache) ==
    IF getNextTask(cache) # NULL THEN TaskResult(getNextTask(cache)) ELSE NULL

\* getNextTaskOrSubtask of the TaskManagerService of one workspace folder
\* (part_012); checked is FALSE there: `if (parsed.isSubtask)` returns the
\* subtask result whatever findSubtaskById found.  With checked TRUE it is
\* the one of the multi-root TaskManagerService, `if (subtask)`
NextTaskOrSubtask(call, checked) ==
    IF call.run.kind # "ok" THEN Fallback(call.cache)
    ELSE IF call.run.text = <<>> THEN Fallback(call.cache)
    ELSE LET parsed == parseNextTaskOutput(call.run.text)
         IN IF ~parsed.success \/ Falsy(parsed.id) THEN Fallback(call.cache)
            ELSE IF parsed.isSubtask /\ IsStr(parsed.id)
            THEN LET parentId == SplitDot(parsed.id.s)[1]
                     subtaskId == SplitDot(parsed.id.s)[2]
                     subtask == findSubtaskById(call.cache, ParseInt(parentId), subtaskId)
                 IN IF checked /\ subtask = NULL THEN Fallback(call.cache)
                    ELSE SubtaskResult(subtask)
            ELSE LET task == getTask(call.cache, parsed.id)
                 IN IF task # NULL THEN TaskResult(task) ELSE Fallback(call.cache)

getNextTaskOrSubtask(call) == NextTaskOrSubtask(call, FALSE)

getNextTaskOrSubtaskOfFolder(call) == NextTaskOrSubtask(call, TRUE)

NotAsked == [none |-> TRUE]

GetNextTaskOrSubtask ==
    /\ nextOut = NotAsked
    /\ nextOut' = [single |-> getNextTaskOrSubtask(nextIn),
                   folder |-> getNextTaskOrSubtaskOfFolder(nextIn)]
    /\ UNCHANGED <<nextIn, opVars, verVars, iniVars, refreshVars, filterVars, execVars,
                   cleanVars, depsVars, utilVars>>

-----------------------------------------------------------------------------
(* TaskManagerService.initialize of the multi-root service, and the          *)
(* FileWatcherService it sets the watchers up with. A call runs until it     *)
(* awaits the file system, the CLI or a refresh; while it waits the          *)
(* extension host runs other callbacks, another call of initialize among     *)
(* them.                                                                     *)

Folders   == 1..NumFolders     \* vscode.workspace.workspaceFolders, in order
InitCallIds == 1..NumInits

NoWatchers == 0                \* watchersMap.get(uri) of a folder without entry

\* a pair { tasksFileWatcher, complexityFileWatcher } that setupFileWatchersForFolder
\* created for the folder in the call `by` of initialize
WatcherPair(folder, by, disposed) ==
    [folder |-> folder, by |-> by, disposed |-> disposed]

NotCalled == [at |-> "idle", folder |-> 0]
At(at, folder) == [at |-> at, folder |-> folder]

\* FileWatcherService.disposeWatchersForFolder: the pair the map holds for the
\* folder is disposed, and its entry deleted
disposeWatchersForFolder(ws, map, f) ==
    IF map[f] = NoWatchers
    THEN [watchers |-> ws, watchersMap |-> map]
    ELSE [watchers |-> (ws \ {WatcherPair(f, map[f], FALSE)})
                          \cup {WatcherPair(f, map[f], TRUE)},
          watchersMap |-> [map EXCEPT ![f] = NoWatchers]]

\* FileWatcherService.setupWatchersForWorkspaceFolder: dispose the pair held
\* for the folder, create a new pair and store it. setupFileWatchersForFolder
\* awaits nothing, so the await on it lets no I/O completion in.
setupWatchersForWorkspaceFolder(ws, map, f, by) ==
    LET d == disposeWatchersForFolder(ws, map, f)
    IN [watchers |-> d.watchers \cup {WatcherPair(f, by, FALSE)},
        watchersMap |-> [d.watchersMap EXCEPT ![f] = by]]

\* the end of the loop over the folders: the configuration listener is
\* registered (the one held before is not disposed) and the flag is set
InitializeEnd(c) ==
    /\ configListeners' = configListeners + 1
    /\ isInitialized' = TRUE
    /\ initCalls' = [initCalls EXCEPT ![c] = At("initialized", 0)]

\* the loop of initialize goes on to the folder after f
InitializeNextFolder(c, f) ==
    IF f < NumFolders
    THEN /\ initCalls' = [initCalls EXCEPT ![c] = At("stat", f + 1)]
         /\ UNCHANGED <<configListeners, isInitialized>>
    ELSE InitializeEnd(c)

nonInitialize == <<projectFolders, opVars, verVars, nxtVars, refreshVars, filterVars,
                   execVars, cleanVars, depsVars, utilVars>>

\* initialize() is called: it returns if the flag is set, else it clears the
\* managed folders and awaits isTaskMasterProject of the first folder
Initialize(c) ==
    /\ initCalls[c] = NotCalled
    /\ IF isInitialized
       THEN /\ initCalls' = [initCalls EXCEPT ![c] = At("returned", 0)]
            /\ UNCHANGED managedWorkspaceFolderUris
       ELSE /\ managedWorkspaceFolderUris' = {}
            /\ initCalls' = [initCalls EXCEPT ![c] = At("stat", 1)]
    /\ UNCHANGED <<isInitialized, watchersMap, watchers, configListeners, tagLoads>>
    /\ UNCHANGED nonInitialize

\* fs.stat of the folder's tasks.json settles: a project is added to the
\* managed folders and checkCLIAvailability awaited, another folder skipped
IsTaskMasterProjectDone(c) ==
    /\ initCalls[c].at = "stat"
    /\ LET f == initCalls[c].folder
       IN IF f \in projectFolders
          THEN /\ managedWorkspaceFolderUris' = managedWorkspaceFolderUris \cup {f}
               /\ initCalls' = [initCalls EXCEPT ![c] = At("cli", f)]
               /\ UNCHANGED <<configListeners, isInitialized>>
          ELSE /\ InitializeNextFolder(c, f)
               /\ UNCHANGED managedWorkspaceFolderUris
    /\ UNCHANGED <<watchersMap, watchers, tagLoads>>
    /\ UNCHANGED nonInitialize

\* checkCLIAvailability settles (whatever it found, initialize goes on): the
\* watchers of the folder are set up and loadCurrentTagForFolder is entered,
\* which awaits the refresh of the folder
CheckCLIAvailabilityDone(c) ==
    /\ initCalls[c].at = "cli"
    /\ LET f == initCalls[c].folder
           w == setupWatchersForWorkspaceFolder(watchers, watchersMap, f, c)
       IN /\ watchers' = w.watchers
          /\ watchersMap' = w.watchersMap
          /\ tagLoads' = [tagLoads EXCEPT ![f] = @ + 1]
          /\ initCalls' = [initCalls EXCEPT ![c] = At("tag", f)]
    /\ UNCHANGED <<isInitialized, managedWorkspaceFolderUris, configListeners>>
    /\ UNCHANGED nonInitialize

\* the refresh of loadCurrentTagForFolder settles: the loop goes on
LoadCurrentTagForFolderDone(c) ==
    /\ initCalls[c].at = "tag"
    /\ InitializeNextFolder(c, initCalls[c].folder)
    /\ UNCHANGED <<managedWorkspaceFolderUris, watchersMap, watchers, tagLoads>>
    /\ UNCHANGED nonInitialize

-----------------------------------------------------------------------------
(* The environment: the CLI, or an editor, changes the files *)

Notified == IF notify < MaxNotify THEN notify + 1 ELSE notify

ExternalWrite(t, e) ==
    /\ writes < MaxWrites
    /\ writes' = writes + 1
    /\ tasksFile' = [malformed |-> FALSE, tags |-> [tasksFile.tags EXCEPT ![t] = e]]
    /\ tasksFile' # tasksFile
    /\ notify' = Notified
    /\ UNCHANGED <<configTag, report, currentTag, cachedTasks, cachedResponse,
                   lastEvent, running, awaiting, fstate>>
    /\ UNCHANGED nonRefresh

\* the file is observed while it is being rewritten
ExternalCorrupt ==
    /\ writes < MaxWrites
    /\ ~tasksFile.malformed
    /\ writes' = writes + 1
    /\ tasksFile' = Corrupt(tasksFile)
    /\ notify' = Notified
    /\ UNCHANGED <<configTag, report, currentTag, cachedTasks, cachedResponse,
                   lastEvent, running, awaiting, fstate>>
    /\ UNCHANGED nonRefresh

EditConfig(t) ==
    /\ writes < MaxWrites
    /\ configTag # t
    /\ writes' = writes + 1
    /\ configTag' = t
    /\ UNCHANGED <<tasksFile, report, currentTag, cachedTasks, cachedResponse,
                   lastEvent, running, awaiting, notify, fstate>>
    /\ UNCHANGED nonRefresh

EditReport(r) ==
    /\ writes < MaxWrites
    /\ report # r
    /\ writes' = writes + 1
    /\ report' = r
    /\ notify' = Notified
    /\ UNCHANGED <<tasksFile, configTag, currentTag, cachedTasks, cachedResponse,
                   lastEvent, running, awaiting, fstate>>
    /\ UNCHANGED nonRefresh

-----------------------------------------------------------------------------
(* The specification of the cache and its refresh *)

InitRefresh ==
    /\ tasksFile = WellFormed([t \in Tags |->
                        IF t = "master" THEN Entry("ok", <<TPending1>>)
                        ELSE Entry("ok", <<>>)])
    /\ configTag = "master"
    /\ report = NoReport
    /\ currentTag = "master"
    /\ cachedTasks = <<>>
    /\ cachedResponse = NULL
    /\ lastEvent = Event("none", <<>>)
    /\ running = NoChain
    /\ awaiting = EmptyBag
    /\ notify = 0
    /\ writes = 0

InitFilter ==
    /\ fstate = InitialFilterState
    /\ clock = StartTime
    /\ freq = [kind |-> "none", tasks |-> <<>>, tag |-> "master", hit |-> FALSE,
               memoTag |-> "master", at |-> StartTime, stored |-> 0]
    /\ fres = <<>>

InitExec ==
    /\ xpc = "idle"
    /\ xproc = NoProcess
    /\ xout = Pending
    /\ xcalls = 0
    /\ xop = NoOp

InitClean ==
    /\ cleanIn = <<>>
    /\ cleanOut = <<>>

InitDeps ==
    /\ depsIn = <<>>
    /\ depsOut = NotApplied

InitSub ==
    /\ subIn = <<>>
    /\ subOut = <<>>

InitMerge ==
    /\ mergeIn = [tasks |-> <<>>, report |-> NoReport]
    /\ mergeOut = NotMerged

InitStats ==
    /\ statsIn = <<>>
    /\ statsOut = NotCounted

InitParse ==
    /\ parseIn = <<>>
    /\ parseOut = NotParsed

InitTag ==
    /\ tagIn = <<>>
    /\ tagOut = NotResolved

InitOp == opResult = NotReported

InitVer ==
    /\ verIn = VersionRun("failed", <<>>)
    /\ verOut = NotChecked

InitNxt ==
    /\ nextIn = NextCall(CliRun("failed", <<>>), <<>>, <<>>)
    /\ nextOut = NotAsked

\* the service as constructed, in a window whose folders p are projects
Constructed(p) ==
    /\ projectFolders = p
    /\ isInitialized = FALSE
    /\ managedWorkspaceFolderUris = {}
    /\ watchersMap = [f \in Folders |-> NoWatchers]
    /\ watchers = {}
    /\ configListeners = 0
    /\ tagLoads = [f \in Folders |-> 0]
    /\ initCalls = [c \in InitCallIds |-> NotCalled]

InitIni == Constructed(Folders)

InitSvc == InitOp /\ InitVer /\ InitNxt /\ InitIni

InitUtil == InitSub /\ InitMerge /\ InitStats /\ InitParse /\ InitTag

Init == InitRefresh /\ InitFilter /\ InitExec /\ InitSvc /\ InitClean /\ InitDeps /\ InitUtil

\* executeTaskCommand("set-status", 1, "done") in a trusted workspace
SetStatusCall ==
    Call("executeTaskCommand", Str(<<"s">>), Num(1), Str(<<"d">>), TRUE, <<"set-status">>)

UseTagOutcomes == {"switched", "unrecognised", "rejected"}

Next ==
    \/ RefreshTasks(NumProcs)
    \/ WatcherFire(NumProcs)
    \/ RefreshAfterCommand
    \/ RefreshRead
    \/ RefreshFix
    \/ RefreshFinish
    \/ \E t \in Tags : SetCurrentTag(NumProcs, t)
    \/ \E o \in UseTagOutcomes : UseTagDone(o)
    \/ Command(NumProcs, SetStatusCall)
    \/ \E o \in {"ok", "failed"} : CommandDone(o)
    \/ ClearCache
    \/ \E t \in Tags, e \in FileEntries : ExternalWrite(t, e)
    \/ ExternalCorrupt
    \/ \E t \in Tags : EditConfig(t)
    \/ \E r \in Reports : EditReport(r)

Spec == Init /\ [][Next]_vars

-----------------------------------------------------------------------------
(* The specification of the filter memo: one call chain refreshes the cache, *)
(* and filter requests are made between its steps                            *)

FilterProcs == 1

\* the task lists written to the file and passed to filterTasksByTag here:
\* two of them differ only in the status of their task
FilterLists == { <<>>, <<TPending1>>, <<TDone1>> }

NextFilter ==
    \/ RefreshTasks(FilterProcs)
    \/ WatcherFire(FilterProcs)
    \/ RefreshRead
    \/ RefreshFix
    \/ RefreshFinish
    \/ \E l \in FilterLists : ExternalWrite("master", Entry("ok", l))
    \/ GetFilteredTasks
    \/ \E l \in FilterLists, t \in Tags \cup {NoTagArg} : FilterTasksByTag(l, t)
    \/ \E t \in Tags : SetCurrentSelectedTag(t)
    \/ ClearFilterCache
    \/ \E d \in TickSteps : Tick(d)

SpecFilter == Init /\ [][NextFilter]_vars

-----------------------------------------------------------------------------
(* The specification of overlapping refreshes: the only change made to the   *)
(* file is `set-status --id=1 --status=done` writing task 1 as done over the *)
(* pending task 1 of the initial file, so that the list with the done task   *)
(* is the newer contents and the list with the pending task the older        *)

OlderList == <<TPending1>>
NewerList == <<TDone1>>

NextRace ==
    \/ RefreshTasks(NumProcs)
    \/ WatcherFire(NumProcs)
    \/ RefreshAfterCommand
    \/ RefreshRead
    \/ RefreshFix
    \/ RefreshFinish
    \/ Command(NumProcs, SetStatusCall)
    \/ \E o \in CliOutcomes : CommandDone(o)
    \/ ExternalWrite("master", Entry("ok", NewerList))

SpecRace == Init /\ [][NextRace]_vars

-----------------------------------------------------------------------------
(* Properties of the cache and its refresh *)

\* the number of refreshes that have started and not finished
RefreshesInFlight ==
    (IF running.pc \in {"read", "fix"} THEN 1 ELSE 0)
      + BagCardinality([c \in {d \in Waiting : d.pc = "report"} |-> awaiting[c]])

\* chain c, which waited for the complexity report, is the one that resumes
Finishes(c) ==
    /\ c \in Waiting
    /\ c.pc = "report"
    /\ awaiting' = awaiting (-) SetToBag({c})

\* C1: at most one refresh is in flight at any time: a refresh requested
\* while another has started and not finished returns without reading the
\* file
C1_SingleFlight == RefreshesInFlight <= 1

\* C2: a refresh that read the older contents of the file never overwrites
\* the cache written by a refresh that read the newer contents
C2_NoStaleOverwrite ==
    [][cachedTasks = NewerList => cachedTasks' # OlderList]_vars

\* C3: a refresh that found tasks.json malformed ends as a load failure
\* (refreshError) and leaves the cached tasks and the cached response as
\* they were
C3_MalformedKeepsCache ==
    [][\A c \in Waiting :
          (Finishes(c) /\ c.sawMalformed)
             => /\ cachedTasks' = cachedTasks
                /\ cachedResponse' = cachedResponse
                /\ lastEvent'.name = "refreshError"]_vars

\* C6: the cached tasks and the cached response change only when a refresh
\* succeeds, which replaces both together by the list it read in full
\* (repaired and merged), or by clearCache; a failing refresh and the
\* commands leave both unchanged
C6_CacheFrame ==
    [][(cachedTasks' # cachedTasks \/ cachedResponse' # cachedResponse)
          => \/ cachedTasks' = <<>> /\ cachedResponse' = NULL
             \/ \E c \in Waiting :
                   /\ Finishes(c)
                   /\ lastEvent' = Event("tasksUpdated", cachedTasks')
                   /\ cachedTasks' = mergeComplexityScores(c.tasks, report)
                   /\ cachedResponse' = [tasks |-> cachedTasks', currentTag |-> c.tag]]_vars

\* C6 witness: a refresh has failed after an earlier one filled the cache,
\* and the cache is still filled
C6_Witness ==
    /\ lastEvent.name = "refreshError"
    /\ cachedTasks # <<>>
    /\ cachedResponse # NULL

-----------------------------------------------------------------------------
(* Properties of the filter memo *)

\* C4: once a refresh has replaced the cached task list, a getFilteredTasks
\* request returns exactly the cached list it was made on, also within
\* CACHE_TTL of an earlier request and when the lists differ only inside a
\* task
C4_FilterFollowsCache ==
    (freq.kind = "getFilteredTasks" /\ lastEvent.name = "tasksUpdated")
       => fres = freq.tasks

\* C5: a request answered from the memo has the tag of the request that
\* filled the memo
C5_MemoKeyedByTag == freq.hit => freq.memoTag = freq.tag

-----------------------------------------------------------------------------
(* The specification of the operations that run the CLI: every operation,   *)
(* with arguments that pass and that fail its validation, while the CLI     *)
(* writes the tasks file and the watcher reports it                         *)

\* the commands, ids and texts passed to the operations here
CommandArgs == {Str(<<>>), Str(<<"s">>)}
TaskIdArgs == {Num(0), Num(1), Str(<<"1">>)}
SubtaskIdArgs == {Str(<<>>), Str(<<"5">>), Str(<<"4", ".", "1">>)}
TextArgs == {Str(<<>>), Str(<<"d">>)}
DependencyInputs == {Str(<<>>), Str(<<"2">>), Str(<<"x">>)}

\* the calls of the operations on tasks and on dependencies
Calls ==
    {Call("executeTaskCommand", c, id, Str(<<"d">>), t, <<"set-status">>) :
        c \in CommandArgs, id \in {Num(0), Num(1)}, t \in BOOLEAN}
    \cup UNION {{Call("addTask", Str(<<>>), Num(0), x, TRUE, p) :
                    x \in DependencyInputs} : p \in Plans("addTask")}
    \cup UNION {{Call("addDependency", Str(<<>>), Num(1), id, TRUE, p) :
                    id \in {Num(1), Num(2)}} : p \in Plans("addDependency")}
    \cup {Call("removeDependency", Str(<<>>), Num(1), Num(2), TRUE, p) :
             p \in Plans("removeDependency")}
    \cup UNION {{Call(op, Str(<<>>), Num(1), Str(<<>>), TRUE, p) :
                    p \in Plans(op)} :
                   op \in {"deleteTask", "updateTask", "expandTask"}}
    \cup {Call("deleteTask", Str(<<>>), Num(0), Str(<<>>), TRUE,
               <<"validate-dependencies", "remove-task">>)}

\* the calls of the operations that validate their arguments and ask
\* whether the workspace is trusted
GuardedCalls ==
    {Call("executeTaskCommand", c, id, Str(<<"d">>), t, <<"set-status">>) :
        c \in CommandArgs, id \in TaskIdArgs, t \in BOOLEAN}
    \cup {Call(op, Str(<<>>), id, x, t, CHOOSE p \in Plans(op) : TRUE) :
             op \in SubtaskOperations, id \in SubtaskIdArgs, x \in TextArgs,
             t \in BOOLEAN}

NextOps ==
    \/ \E call \in Calls : Command(NumProcs, call)
    \/ \E o \in CliOutcomes : CommandDone(o)
    \/ RefreshAfterCommand
    \/ WatcherFire(NumProcs)
    \/ RefreshRead
    \/ RefreshFix
    \/ RefreshFinish
    \/ ExternalWrite("master", Entry("ok", NewerList))

SpecOps == Init /\ [][NextOps]_vars

\* the step settles the last CLI command of an operation on tasks, and the
\* operation goes on to refreshTasks
GoesOnToRefresh == running.pc # "call" /\ running'.pc = "call"

\* the step ends an operation on tasks because the CLI command it awaited
\* failed or timed out (the `show` of removeDependency set aside)
CliFailedStep ==
    \E c \in Waiting :
        /\ c.pc = "cli"
        /\ c.call.op \in TaskOperations
        /\ ~(c.call.op = "removeDependency" /\ Head(c.calls) = "show")
        /\ awaiting' = awaiting (-) SetToBag({c})
        /\ opResult'.call = c.call
        /\ opResult'.cli \in {"failed", "timeout"}

\* the step is a call of an operation on tasks that its validation rejects
RejectedStep ==
    /\ opResult' # opResult
    /\ opResult'.cli = "none"
    /\ opResult'.call.op \in TaskOperations
    /\ ~ValidCall(opResult'.call)

\* C22: an operation on tasks goes on to refresh the cache only in the step
\* in which its last CLI command ends successfully, and the refresh of a
\* command starts only from there; a step in which its CLI command fails or
\* times out, or in which its validation rejects the call, starts no
\* refresh and no process, leaves the cache as it is and reports failure
C22_RefreshOnlyAfterSuccess ==
    [][/\ GoesOnToRefresh =>
             /\ opResult'.result = "ok"
             /\ opResult'.cli = "ok"
             /\ \E c \in Waiting :
                   /\ c.pc = "cli"
                   /\ Len(c.calls) = 1
                   /\ c.call = opResult'.call
                   /\ awaiting' = awaiting (-) SetToBag({c})
       /\ RefreshAfterCommand => running.pc = "call" /\ opResult.result = "ok"
       /\ (CliFailedStep \/ RejectedStep) =>
             /\ opResult'.result = "failed"
             /\ running' = NoChain
             /\ \A c \in BagToSet(awaiting') : BagIn(c, awaiting)
             /\ cachedTasks' = cachedTasks
             /\ cachedResponse' = cachedResponse
             /\ lastEvent' = lastEvent]_vars

\* C22 witness: addDependency reported failure after its CLI command timed
\* out, while the cache, filled by an earlier refresh, is older than the
\* tasks file
C22_Witness ==
    /\ opResult.call.op = "addDependency"
    /\ opResult.result = "failed"
    /\ opResult.cli = "timeout"
    /\ HostIdle /\ awaiting = EmptyBag
    /\ cachedResponse # NULL
    /\ cachedTasks # GetTasksByTag(tasksFile, currentTag)

NextGuard ==
    \/ \E call \in GuardedCalls : Command(NumProcs, call)
    \/ \E o \in CliOutcomes : CommandDone(o)
    \/ RefreshAfterCommand
    \/ RefreshRead
    \/ RefreshFix
    \/ RefreshFinish
    \/ ExternalWrite("master", Entry("ok", NewerList))

SpecGuard == Init /\ [][NextGuard]_vars

\* the workspace is untrusted, or the call is one of executeTaskCommand with
\* an empty command or with a task id that is not a number of at least 1
RefusedCall(call) ==
    \/ ~call.trusted
    \/ /\ call.op = "executeTaskCommand"
       /\ \/ call.command = Str(<<>>)
          \/ ~IsNum(call.id)
          \/ IF IsNum(call.id) THEN call.id.n < 1 ELSE TRUE

\* C28: no CLI process is ever awaited for a call made while the workspace
\* is untrusted, or of executeTaskCommand with an empty command or a task id
\* that is not a number of at least 1; the step of such a call reports
\* failure, starts nothing and leaves the cache as it is
C28_RefusedWithoutProcess ==
    [][/\ \A c \in BagToSet(awaiting') :
             c.pc = "cli" => ~RefusedCall(c.call)
       /\ (/\ opResult' # opResult
           /\ opResult'.call.op \in {"executeTaskCommand"} \cup SubtaskOperations
           /\ RefusedCall(opResult'.call)) =>
             /\ opResult'.result = "failed"
             /\ opResult'.cli = "none"
             /\ awaiting' = awaiting
             /\ running' = NoChain
             /\ cachedTasks' = cachedTasks
             /\ cachedResponse' = cachedResponse
             /\ lastEvent' = lastEvent]_vars

\* C28 witness: setSubtaskStatus, called with a subtask id and a status
\* while the workspace is untrusted, reported failure; no process is
\* awaited, and the cache, filled by an earlier refresh, is older than the
\* tasks file
C28_Witness ==
    /\ opResult.call.op = "setSubtaskStatus"
    /\ ~opResult.call.trusted
    /\ opResult.call.id = Str(<<"4", ".", "1">>)
    /\ opResult.call.arg = Str(<<"d">>)
    /\ opResult.result = "failed"
    /\ HostIdle /\ awaiting = EmptyBag
    /\ cachedResponse # NULL
    /\ cachedTasks # GetTasksByTag(tasksFile, currentTag)

-----------------------------------------------------------------------------
(* The specification of tag switches: one call of setCurrentTag at a time,  *)
(* with no other refresh and no other change of the filter's selected tag,  *)
(* so that every refresh is the one a successful setCurrentTag(t) awaits    *)
(* and the selected tag of the filter, set by setCurrentSelectedTag(t)      *)
(* just before, is its t.  Other programs edit the files meanwhile.         *)

SwitchProcs == 1

NextSwitch ==
    \/ \E t \in Tags : SetCurrentTag(SwitchProcs, t)
    \/ \E o \in UseTagOutcomes : UseTagDone(o)
    \/ RefreshAfterCommand
    \/ RefreshRead
    \/ RefreshFix
    \/ RefreshFinish
    \/ \E t \in Tags : EditConfig(t)
    \/ \E t \in Tags, e \in FileEntries : ExternalWrite(t, e)

SpecSwitch == Init /\ [][NextSwitch]_vars

\* C23: the step that completes the refresh awaited by a successful
\* setCurrentTag(t) leaves the cached response reporting currentTag = t and
\* TagService.getCurrentTag() returning t
C23_SwitchLoadsTag ==
    [][RefreshFinish =>
          /\ cachedResponse'.currentTag = fstate.currentSelectedTag
          /\ currentTag' = fstate.currentSelectedTag]_vars

-----------------------------------------------------------------------------
(* The specification of the repair write-back beside tag switches: refreshes *)
(* started by the file watcher and by setCurrentTag, in flight together,     *)
(* while another program writes the tasks file or config.json                *)

NextWriteBack ==
    \/ WatcherFire(NumProcs)
    \/ \E t \in Tags : SetCurrentTag(NumProcs, t)
    \/ \E o \in UseTagOutcomes : UseTagDone(o)
    \/ RefreshAfterCommand
    \/ RefreshRead
    \/ RefreshFix
    \/ RefreshFinish
    \/ \E t \in Tags : EditConfig(t)
    \/ \E t \in Tags, e \in FileEntries : ExternalWrite(t, e)

SpecWriteBack == Init /\ [][NextWriteBack]_vars

\* C25: a step of a refresh that writes to the tasks file writes the
\* repaired list under the tag the refresh read its list from, and leaves
\* the entry of every other tag as it was
C25_WriteBackSameTag ==
    [][(RefreshFix /\ tasksFile' # tasksFile) =>
          /\ ~tasksFile'.malformed
          /\ tasksFile'.tags[running.tag] =
                Entry("ok", fixSubtaskIds(fixStringDependencies(running.tasks)).tasks)
          /\ \A t \in Tags \ {running.tag} :
                tasksFile'.tags[t] = tasksFile.tags[t]]_vars

\* C25 witness: a refresh that read the list of one tag wrote its repaired
\* list back under that tag (no other program writes this list) and still
\* awaits the complexity report, the current tag was switched to the other
\* tag meanwhile, and the other tag's entry is the initial one
C25_Witness ==
    \E c \in Waiting :
        /\ c.pc = "report"
        /\ c.tag = "master"
        /\ currentTag = "feature"
        /\ ~tasksFile.malformed
        /\ tasksFile.tags["master"] = Entry("ok", c.tasks)
        /\ tasksFile.tags["master"] \notin FileEntries
        /\ tasksFile.tags["feature"] = Entry("ok", <<>>)

-----------------------------------------------------------------------------
(* The specification of the repair loop: another program changes the tasks   *)
(* file, the file watcher starts refreshes, and a refresh that repairs       *)
(* subtask ids writes the file, which notifies the watcher again.  The       *)
(* host delivers a pending notification when it can start the handler, runs  *)
(* the continuations it queued, and the read of the complexity report ends.  *)

\* further lists the other program writes here: a subtask id with the
\* prefix of another task, which is not repaired; a repaired id beside one to
\* repair; two tasks of which the second is to repair
RepairLists ==
    { << Task(1, "pending", <<>>,
              <<Subtask(Str(<<"2", ".", "1">>), "pending", <<>>)>>) >>,
      << Task(1, "pending", <<>>,
              <<Subtask(Num(1), "done", <<>>),
                Subtask(Str(<<"1", ".", "2">>), "pending", <<>>)>>) >>,
      << TDone1,
         Task(2, "pending", <<>>,
              <<Subtask(Str(<<"2", ".", "1">>), "pending", <<>>)>>) >> }

RepairEntries == FileEntries \cup {Entry("ok", l) : l \in RepairLists}

NextRepair ==
    \/ \E t \in Tags, e \in RepairEntries : ExternalWrite(t, e)
    \/ ExternalCorrupt
    \/ \E t \in Tags : EditConfig(t)
    \/ \E r \in Reports : EditReport(r)
    \/ ClearCache
    \/ WatcherFire(NumProcs)
    \/ RefreshRead
    \/ RefreshFix
    \/ RefreshFinish

SpecRepair ==
    /\ Init /\ [][NextRepair]_vars
    /\ WF_vars(WatcherFire(NumProcs))
    /\ WF_vars(RefreshRead)
    /\ WF_vars(RefreshFix)
    /\ WF_vars(RefreshFinish)

\* no refresh is running or waiting, and no notification is pending
Quiescent == HostIdle /\ awaiting = EmptyBag /\ notify = 0

\* a refresh that reads the list of tag t from the file finds nothing to
\* repair
NothingToRepair(file, t) ==
    ~fixSubtaskIds(fixStringDependencies(GetTasksByTag(file, t))).hasChanges

\* C26: a refresh that found nothing to repair in the list it read writes
\* nothing and notifies nobody; a refresh that writes or notifies leaves
\* nothing to repair in the list it wrote, so that the refresh this
\* notification starts writes nothing; and once the other programs have
\* stopped changing the files, the system comes to rest with no refresh
\* running or waiting and no notification pending
C26_RepairLoopEnds ==
    /\ [][RefreshFix =>
            /\ ~fixSubtaskIds(fixStringDependencies(running.tasks)).hasChanges =>
                  tasksFile' = tasksFile /\ notify' = notify
            /\ (tasksFile' # tasksFile \/ notify' # notify) =>
                  NothingToRepair(tasksFile', running.tag)]_vars
    /\ <>[]Quiescent

\* C26 witness: after the one change made by another program a refresh
\* wrote the repaired list back, the refresh started by that write has run
\* too, and the system is at rest with the repaired list in the cache
C26_Witness ==
    /\ Quiescent
    /\ writes = 1
    /\ ~tasksFile.malformed
    /\ tasksFile.tags["master"].kind = "ok"
    /\ tasksFile.tags["master"] \notin RepairEntries
    /\ cachedResponse # NULL
    /\ cachedTasks = tasksFile.tags["master"].tasks

-----------------------------------------------------------------------------
(* The specification of the version check: checkCLIVersion is applied to    *)
(* each way `--version` can end                                             *)

VersionNumbers == {0, 1, 9, 16, 17, 18}

\* what precedes the version in the output
VersionPrefixes == { <<>>, <<"a", "i", "/">> }

VersionText(v) ==
    NumToString(v[1]) \o <<".">> \o NumToString(v[2]) \o <<".">> \o NumToString(v[3])

\* outputs without three numbers separated by dots
Unversioned == { <<>>, <<"1", "7">>, <<"0", ".", "1", "7">>, <<"v", ".", "1", ".", "x">> }

InitVersionInputs ==
    /\ InitRefresh /\ InitFilter /\ InitExec /\ InitOp /\ InitClean /\ InitDeps /\ InitUtil
    /\ InitNxt /\ InitIni
    /\ \/ \E k \in {"failed", "timeout"} : verIn = VersionRun(k, <<>>)
       \/ \E t \in Unversioned : verIn = VersionRun("ok", t)
       \/ \E p \in VersionPrefixes, v \in VersionNumbers \X VersionNumbers \X {0, 1, 9} :
             verIn = VersionRun("ok", p \o VersionText(v))
    /\ verOut = NotChecked

NextVersion == CheckCLIVersion

SpecVersion == InitVersionInputs /\ [][NextVersion]_vars

\* the version printed, as its three numbers (the outputs of this model
\* have no digit before it), or <<>>
PrintedVersion ==
    IF \E p \in VersionPrefixes, v \in VersionNumbers \X VersionNumbers \X {0, 1, 9} :
          verIn = VersionRun("ok", p \o VersionText(v))
    THEN CHOOSE v \in VersionNumbers \X VersionNumbers \X {0, 1, 9} :
            \E p \in VersionPrefixes : verIn = VersionRun("ok", p \o VersionText(v))
    ELSE <<>>

\* version v is 0.17.0 or above
AtLeast_0_17_0(v) == v[1] > 0 \/ (v[1] = 0 /\ v[2] >= 17)

\* C24: checkCLIVersion reports isValid = true exactly for the versions at
\* or above 0.17.0, and isValid = false with an error text when the output
\* has no version or the invocation failed
C24_ValidFromMinimum ==
    verOut # NotChecked =>
        IF PrintedVersion = <<>>
        THEN ~verOut.isValid /\ verOut.error # NoText
        ELSE verOut.isValid <=> AtLeast_0_17_0(PrintedVersion)

-----------------------------------------------------------------------------
(* The specification of the next item: getNextTaskOrSubtask is applied to   *)
(* each way `next` can end, with each cache                                 *)

\* the ids the output of `next` names
NextIds ==
    { <<"1">>, <<"2">>, <<"9">>, <<"1", ".", "1">>, <<"1", ".", "2">>,
      <<"2", ".", "1">>, <<"9", ".", "1">> }

\* outputs that name no id
Unnamed == { <<>>, <<"N", "o", " ", "t", "a", "s", "k", "s">> }

\* the cached tasks with id 1 and with id 2
CachedOnes ==
    { Task(1, "pending", <<>>, <<Subtask(Num(1), "pending", <<>>)>>),
      Task(1, "done", <<>>, <<Subtask(Str(<<"1", ".", "2">>), "pending", <<>>)>>),
      Task(1, "in-progress", <<>>, AbsentField) }
CachedTwos ==
    { Task(2, "pending", <<>>, <<>>),
      Task(2, "pending", <<Num(1)>>, <<Subtask(Num(1), "done", <<>>)>>) }

NextCaches ==
    { <<>> } \cup { <<a>> : a \in CachedOnes \cup CachedTwos }
    \cup { <<a, b>> : a \in CachedOnes, b \in CachedTwos }

InitNextItemInputs ==
    /\ InitRefresh /\ InitFilter /\ InitExec /\ InitOp /\ InitVer /\ InitIni
    /\ InitClean /\ InitDeps /\ InitUtil
    /\ \E cache \in NextCaches :
          \/ \E k \in {"failed", "timeout"} :
                nextIn = NextCall(CliRun(k, <<>>), cache, <<>>)
          \/ \E t \in Unnamed : nextIn = NextCall(CliRun("ok", t), cache, <<>>)
          \/ \E id \in NextIds :
                nextIn = NextCall(CliRun("ok", NextTaskHeader \o id \o NextTaskEnd
                                                \o <<" ">> \o <<"x">>),
                                  cache, id)
    /\ nextOut = NotAsked

NextNextItem == GetNextTaskOrSubtask

SpecNextItem == InitNextItemInputs /\ [][NextNextItem]_vars

\* the cached subtasks that the id "p.s" names: the subtask of the cached
\* task p whose id is the number s or the string "p.s"
NamedSubtasks(cache, id) ==
    LET p == SplitDot(id)[1]
        sid == SplitDot(id)[2]
    IN {sub \in UNION {IF IsArray(cache[i].subtasks)
                        THEN {cache[i].subtasks[j] : j \in 1..Len(cache[i].subtasks)}
                        ELSE {} :
                        i \in {k \in 1..Len(cache) : NumToString(cache[k].id) = p}} :
           sub.id = Num(ParseInt(sid)) \/ sub.id = Str(id)}

\* the id the output names is that of a cached task or subtask
NamedInCache(call) ==
    /\ call.names # <<>>
    /\ IF \E k \in 1..Len(call.names) : call.names[k] = "."
       THEN NamedSubtasks(call.cache, call.names) # {}
       ELSE \E i \in 1..Len(call.cache) : NumToString(call.cache[i].id) = call.names

\* the first cached pending task without dependencies, as a result, or null
FirstActionable(cache) ==
    IF \E i \in 1..Len(cache) :
          cache[i].status = "pending" /\ cache[i].dependencies = <<>>
    THEN TaskResult(cache[Least({i \in 1..Len(cache) :
                          cache[i].status = "pending" /\ cache[i].dependencies = <<>>})])
    ELSE NULL

\* result r is null or refers to an item of the cache; when the CLI failed
\* or named nothing that is in the cache, it is the first actionable task
AsClaimedOfNext(r, call) ==
    /\ r # NULL =>
          IF r.type = "task"
          THEN \E i \in 1..Len(call.cache) : r.task = call.cache[i]
          ELSE /\ r.subtask # NULL
               /\ \E sub \in NamedSubtasks(call.cache, call.names) :
                     \A f \in DOMAIN sub : r.subtask[f] = sub[f]
    /\ ~NamedInCache(call) => r = FirstActionable(call.cache)

\* C29: getNextTaskOrSubtask returns null or a result that carries a cached
\* task or a cached subtask that is not null, and the first cached pending
\* task without dependencies (or null) whenever the CLI fails, its output
\* names no id, or the id it names is not in the cache
C29_NextItemInCache ==
    nextOut # NotAsked =>
        /\ AsClaimedOfNext(nextOut.single, nextIn)
        /\ AsClaimedOfNext(nextOut.folder, nextIn)

-----------------------------------------------------------------------------
(* The specification of initialize: it is called NumInits times on a service *)
(* just constructed, in a window of NumFolders folders of which any may be   *)
(* projects; a call may be made while an earlier one awaits                  *)

InitInitialize ==
    /\ InitRefresh /\ InitFilter /\ InitExec /\ InitOp /\ InitVer /\ InitNxt
    /\ InitClean /\ InitDeps /\ InitUtil
    /\ \E p \in SUBSET Folders : Constructed(p)

NextInitialize ==
    \E c \in InitCallIds :
        \/ Initialize(c)
        \/ IsTaskMasterProjectDone(c)
        \/ CheckCLIAvailabilityDone(c)
        \/ LoadCurrentTagForFolderDone(c)

SpecInitialize == InitInitialize /\ [][NextInitialize]_vars

\* the pairs of watchers created for a folder, and those of them not disposed
CreatedFor(f) == { w \in watchers : w.folder = f }
LiveFor(f) == { w \in CreatedFor(f) : ~w.disposed }

\* at most one pair of live watchers per folder
OneLivePairPerFolder == \A f \in Folders : Cardinality(LiveFor(f)) <= 1

\* C30: however calls of initialize overlap, the watchers of a folder are
\* created once, its tag is loaded once, one configuration listener is
\* registered, and a folder never has two live pairs of watchers
C30_InitializeOnce ==
    /\ \A f \in Folders :
          /\ Cardinality(CreatedFor(f)) <= 1
          /\ tagLoads[f] <= 1
    /\ configListeners <= 1
    /\ OneLivePairPerFolder

-----------------------------------------------------------------------------
(* The specification of the filter memo alone: requests, changes of the     *)
(* selected tag, clearFilterCache and the clock                             *)

NextMemo ==
    \/ GetFilteredTasks
    \/ \E l \in FilterLists, t \in Tags \cup {NoTagArg} : FilterTasksByTag(l, t)
    \/ \E t \in Tags : SetCurrentSelectedTag(t)
    \/ ClearFilterCache
    \/ \E d \in TickSteps : Tick(d)

SpecMemo == Init /\ [][NextMemo]_vars

\* no request made now, whatever its list and tag, is answered from the memo
NoHitPossible ==
    \A l \in FilterLists, t \in Tags \cup {NoTagArg} :
        ~FilterCacheHit(fstate, l, t, clock)

\* the step is clearFilterCache or a change of the selected tag
MemoDropped == ClearFilterCache \/ \E t \in Tags : SetCurrentSelectedTag(t)

\* the step is a filter request
FilterRequested ==
    \/ GetFilteredTasks
    \/ \E l \in FilterLists, t \in Tags \cup {NoTagArg} : FilterTasksByTag(l, t)

\* C21: a request is answered from the memo only if the memo was filled
\* less than CACHE_TTL ms before it; a request made CACHE_TTL ms or more
\* after the memo was filled, or the first request after clearFilterCache or
\* after a change of the selected tag, is not answered from the memo, and
\* every request that is not returns the list passed in
C21_MemoTtl ==
    [][/\ MemoDropped => NoHitPossible'
       /\ (NoHitPossible /\ ~FilterRequested) => NoHitPossible'
       /\ FilterRequested =>
             /\ freq'.hit => /\ freq'.at - freq'.stored < CACHE_TTL
                             /\ fres' = fstate.lastFilteredTasks
             /\ (NoHitPossible \/ clock - freq.stored >= CACHE_TTL) => ~freq'.hit
             /\ ~freq'.hit => fres' = freq'.tasks]_vars

\* C21 witness: a request was answered from a memo filled CACHE_TTL - 1 ms
\* before it, and that memo has expired since
C21_Witness ==
    /\ freq.hit
    /\ freq.at - freq.stored = CACHE_TTL - 1
    /\ clock - freq.stored >= CACHE_TTL
    /\ fres # <<>>

-----------------------------------------------------------------------------
(* The specification of the CLI runner *)

NextExec ==
    \/ \E t \in TimeoutOptions : ExecuteCommand(t)
    \/ ExecuteTaskCommand
    \/ \E id \in SubtaskIds : SetSubtaskStatus(id)
    \/ \E ch \in OutChars : StdoutData(ch)
    \/ \E ch \in OutChars : StderrData(ch)
    \/ TimeoutFires
    \/ ProcessError
    \/ \E code \in ExitCodes : ProcessClose(code)
    \/ OpContinues

SpecExec == Init /\ [][NextExec]_vars

\* the host runs the callback of a timer that is armed
SpecExecFair == SpecExec /\ WF_vars(TimeoutFires)

-----------------------------------------------------------------------------
(* Properties of the CLI runner *)

\* C27: while an invocation of executeCommand is pending its timer is armed,
\* and an armed timer fires, so that the invocation settles, at its timeout
\* at the latest; the outcome is that of the event that settles it (timeout,
\* spawn error or close), and stays until the next invocation starts; a
\* close or an error cancels an armed timer, and a cancelled timer never
\* fires
C27_SettlesOnce ==
    /\ [](xpc = "awaiting" /\ xout.state = "pending" => xproc.timer = "armed")
    /\ [][/\ (xout.state # "pending" /\ xcalls' = xcalls) => xout' = xout
          /\ (xout.state = "pending" /\ xout'.state # "pending") =>
                CASE xout'.kind = "timeout" ->
                        /\ xproc.timer = "armed" /\ xproc'.timer = "fired"
                        /\ xproc'.killed /\ xout'.ms = xproc.timeout
                  [] xout'.kind = "spawn" ->
                        /\ ~xproc.errored /\ xproc'.errored
                        /\ xproc'.timer = "cleared"
                  [] OTHER ->
                        /\ xproc.state = "running" /\ xproc'.state = "closed"
                        /\ xproc'.timer = "cleared"
                        /\ xout'.kind = "ok" <=> xproc'.code = 0
          /\ (xproc.timer = "armed" /\ xcalls' = xcalls
                /\ (xproc'.errored # xproc.errored \/ xproc'.state # xproc.state)) =>
                xproc'.timer = "cleared"
          /\ (xproc.timer = "cleared" /\ xcalls' = xcalls) =>
                xproc'.timer = "cleared"]_vars
    /\ (xpc = "awaiting" /\ xout.state = "pending") ~> (xout.state # "pending")

\* C27 witness: the timeout rejected the invocation, and the process, killed
\* by it, closed afterwards with exit code 0: the outcome is still the
\* timeout
C27_Witness ==
    /\ xout.state = "rejected"
    /\ xout.kind = "timeout"
    /\ xproc.timer = "fired"
    /\ xproc.state = "closed"
    /\ xproc.code = 0


\* C7: an invocation that timed out is not retried: once an invocation of
\* an operation has failed by timeout, the operation spawns no further CLI
\* process
C7_NoRetryAfterTimeout ==
    \A i \in 1..Len(xop.failures) : xop.failures[i] = "timeout" => xcalls = i

\* what the exit code alone decides: success with the collected stdout for
\* code 0, and otherwise a failure whose detail is the trimmed stderr if
\* that is not empty, else the trimmed stdout if that is not empty, else the
\* fixed text
ExitCodeDecides ==
    IF xproc.code = 0
    THEN xout.state = "resolved" /\ xout.value = xproc.stdout
    ELSE /\ xout.state = "rejected" /\ xout.kind = "exit" /\ xout.code = xproc.code
         /\ LET e == Trim(xproc.stderr)
                o == Trim(xproc.stdout)
            IN xout.value = IF e # <<>> THEN e ELSE IF o # <<>> THEN o
                            ELSE NoErrorOutput

\* C8 as stated: whenever the child process has exited, executeCommand has
\* succeeded with stdout if the code is 0 and has failed with the
\* stderr / stdout / fixed-text detail otherwise
C8_ExitCodeDecidesAlways == xproc.state = "closed" => ExitCodeDecides

\* C8 amended: the exit code decides when the process closes before the
\* timeout fires and without a spawn error; and executeCommand succeeds only
\* for a process that exited with code 0, with the stdout it wrote
C8_ExitCodeDecidesUnlessPreempted ==
    /\ (xproc.state = "closed" /\ xproc.timer # "fired" /\ ~xproc.errored)
          => ExitCodeDecides
    /\ xout.state = "resolved"
          => xproc.state = "closed" /\ xproc.code = 0 /\ xout.value = xproc.stdout

\* C8 witness: a process that was not preempted exited with a code other
\* than 0 after writing only white space to stderr and more than white space
\* to stdout, and the detail of the failure is the trimmed stdout
C8_Witness ==
    /\ xproc.state = "closed" /\ xproc.timer = "cleared" /\ ~xproc.errored
    /\ xproc.code # 0
    /\ xproc.stderr # <<>> /\ Trim(xproc.stderr) = <<>>
    /\ Trim(xproc.stdout) # <<>> /\ Trim(xproc.stdout) # xproc.stdout
    /\ xout.state = "rejected" /\ xout.value = Trim(xproc.stdout)

-----------------------------------------------------------------------------
(* The specification of cleanCliOutput: it is applied twice to each raw      *)
(* output of at most MaxCleanLen units                                       *)

InitCleanInputs ==
    /\ InitRefresh /\ InitFilter /\ InitExec /\ InitSvc /\ InitDeps /\ InitUtil
    /\ cleanIn \in CleanInputs
    /\ cleanOut = <<>>

NextClean == CleanCliOutput

SpecClean == InitCleanInputs /\ [][NextClean]_vars

\* C9: cleaning the result of cleanCliOutput again gives the same string
C9_CleanIdempotent == Len(cleanOut) = 2 => cleanOut[2] = cleanOut[1]

-----------------------------------------------------------------------------
(* The specification of fixStringDependencies: it is applied to each task    *)
(* list that DepInput builds                                                 *)

InitDepsInputs ==
    /\ InitRefresh /\ InitFilter /\ InitExec /\ InitSvc /\ InitClean /\ InitUtil
    /\ \E shape \in DepShapes, d \in DepLists, e \in DepLists,
          withSubtask \in BOOLEAN, v \in DepValues :
          depsIn = DepInput(shape, DepTask1(d, e, withSubtask), DepTask2(v))
    /\ depsOut = NotApplied

NextDeps == FixStringDependencies

SpecDeps == InitDepsInputs /\ [][NextDeps]_vars

\* the value of a string of decimal digits, read from the left
RECURSIVE DecimalValue(_, _)
DecimalValue(cs, acc) ==
    IF cs = <<>> THEN acc
    ELSE DecimalValue(Tail(cs), 10 * acc + DigitVal(Head(cs)))

\* entry y is what the claim requires for entry x
EntryMapped(x, y) ==
    IF IsStr(x) /\ x.s # <<>> /\ (\A k \in 1..Len(x.s) : x.s[k] \in Digits)
    THEN y = Num(DecimalValue(x.s, 0))
    ELSE y = x

\* dependencies field y is what the claim requires for field x
DepsMapped(x, y) ==
    IF x = AbsentField THEN y = x
    ELSE /\ y # AbsentField
         /\ Len(y) = Len(x)
         /\ \A k \in 1..Len(x) : EntryMapped(x[k], y[k])

SubtasksMapped(x, y) ==
    IF x = AbsentField THEN y = x
    ELSE /\ y # AbsentField
         /\ Len(y) = Len(x)
         /\ \A k \in 1..Len(x) :
               /\ y[k].id = x[k].id
               /\ y[k].status = x[k].status
               /\ DepsMapped(x[k].dependencies, y[k].dependencies)

HasStringDep(deps) ==
    deps # AbsentField /\ \E k \in 1..Len(deps) : IsStr(deps[k])

NoStringDependencies(tasks) ==
    \A i \in 1..Len(tasks) :
        /\ ~HasStringDep(tasks[i].dependencies)
        /\ tasks[i].subtasks # AbsentField
              => \A k \in 1..Len(tasks[i].subtasks) :
                    ~HasStringDep(tasks[i].subtasks[k].dependencies)

-----------------------------------------------------------------------------
(* The specification of fixSubtaskIds: it is applied to each task list that  *)
(* DepInput builds from task 1 and task 12, and then to the list it returned *)

InitSubInputs ==
    /\ InitRefresh /\ InitFilter /\ InitExec /\ InitSvc /\ InitClean /\ InitDeps
    /\ InitMerge /\ InitStats /\ InitParse /\ InitTag
    /\ \E shape \in DepShapes, l \in SubLists, w \in SubIdValues \cup {Num(0)} :
          subIn = DepInput(shape, SubTask1(l), SubTask12(w))
    /\ subOut = <<>>

NextSubIds == FixSubtaskIds

SpecSubIds == InitSubInputs /\ [][NextSubIds]_vars

\* cs is the decimal numeral of k
IsNumeralOf(cs, k) ==
    /\ cs # <<>>
    /\ \A j \in 1..Len(cs) : cs[j] \in Digits
    /\ Len(cs) > 1 => cs[1] # "0"
    /\ DecimalValue(cs, 0) = k

\* the subtask id v has the form "<parentId>.<n>" for the parent id k
IsParentDotN(v, k) ==
    /\ IsStr(v)
    /\ \E d \in 1..Len(v.s) :
          /\ v.s[d] = "."
          /\ IsNumeralOf(SubSeq(v.s, 1, d - 1), k)
          /\ d < Len(v.s)
          /\ \A j \in (d + 1)..Len(v.s) : v.s[j] \in Digits

\* the subtask id v is a string with a dot whose prefix is not the parent id k
HasOtherPrefix(v, k) ==
    /\ IsStr(v)
    /\ \E d \in 1..Len(v.s) :
          /\ v.s[d] = "."
          /\ \A j \in 1..(d - 1) : v.s[j] # "."
          /\ ~IsNumeralOf(SubSeq(v.s, 1, d - 1), k)

\* the number of entries of the sequence sq that equal x
Occurrences(sq, x) == Cardinality({j \in 1..Len(sq) : sq[j] = x})

\* what the claim requires of the subtasks y returned for the subtasks x of
\* the task with id k
SubtaskIdsFixed(x, y, k) ==
    IF x = AbsentField THEN y = x
    ELSE /\ y # AbsentField
         /\ Len(y) = Len(x)
         /\ \A j \in 1..Len(x) :
               /\ IsParentDotN(x[j].id, k) => y[j] = [x[j] EXCEPT !.id = Num(j)]
               /\ (IsNum(x[j].id) \/ HasOtherPrefix(x[j].id, k)) => y[j] = x[j]

\* C11: fixSubtaskIds gives every subtask whose id is "<parentId>.<n>", with
\* <parentId> the id of its task, its 1-based position as id and leaves a
\* subtask with another prefix or with a number as id as it is; the list of
\* changed tasks holds the id of a task once if one of its subtasks was
\* rewritten and not at all otherwise, and hasChanges tells whether it is
\* empty
C11_FixSubtaskIds ==
    Len(subOut) >= 1 =>
        LET r == subOut[1]
        IN /\ Len(r.tasks) = Len(subIn)
           /\ \A i \in 1..Len(subIn) :
                 /\ r.tasks[i] = [subIn[i] EXCEPT !.subtasks = r.tasks[i].subtasks]
                 /\ SubtaskIdsFixed(subIn[i].subtasks, r.tasks[i].subtasks, subIn[i].id)
                 /\ Occurrences(r.changedTasks, subIn[i].id)
                       = IF r.tasks[i] # subIn[i] THEN 1 ELSE 0
           /\ \A j \in 1..Len(r.changedTasks) :
                 \E i \in 1..Len(subIn) : subIn[i].id = r.changedTasks[j]
           /\ r.hasChanges <=> r.changedTasks # <<>>

\* C11 witness: task 1 has the subtasks "1.7" and 3, task 12 the subtask
\* "1.1"; only "1.7" was rewritten, to 1, and only task 1 is reported
C11_Witness ==
    /\ Len(subOut) >= 1
    /\ Len(subIn) = 2
    /\ subIn[1].id = 1 /\ subIn[2].id = 12
    /\ subIn[1].subtasks = <<SubInputSubtask(Str(<<"1", ".", "7">>)),
                             SubInputSubtask(Num(3))>>
    /\ subIn[2].subtasks = <<SubInputSubtask(Str(<<"1", ".", "1">>))>>
    /\ subOut[1].tasks[1].subtasks = <<SubInputSubtask(Num(1)),
                                       SubInputSubtask(Num(3))>>
    /\ subOut[1].tasks[2] = subIn[2]
    /\ subOut[1].changedTasks = <<1>>
    /\ subOut[1].hasChanges

\* C12: fixSubtaskIds applied to the list it returned reports no change and
\* returns that list again
C12_FixSubtaskIdsIdempotent ==
    Len(subOut) = 2 =>
        /\ ~subOut[2].hasChanges
        /\ subOut[2].changedTasks = <<>>
        /\ subOut[2].tasks = subOut[1].tasks

\* C12 witness: the first application rewrote a subtask id, the second was
\* made on its result
C12_Witness ==
    /\ Len(subOut) = 2
    /\ subOut[1].hasChanges
    /\ subOut[1].tasks # subIn
    /\ subOut[2].tasks = subOut[1].tasks

-----------------------------------------------------------------------------
(* The specification of mergeComplexityScores: it is applied to each list    *)
(* that DepInput builds from task 1 and task 2 and to each report            *)

InitMergeInputs ==
    /\ InitRefresh /\ InitFilter /\ InitExec /\ InitSvc /\ InitClean /\ InitDeps
    /\ InitSub /\ InitStats /\ InitParse /\ InitTag
    /\ \E shape \in DepShapes, r \in MergeReports :
          mergeIn = [tasks |-> DepInput(shape, MergeTask1, MergeTask2), report |-> r]
    /\ mergeOut = NotMerged

NextMerge == MergeComplexityScores

SpecMerge == InitMergeInputs /\ [][NextMerge]_vars

\* the positions of the analyses of the report rep for the task id k
AnalysesFor(rep, k) ==
    {j \in 1..Len(rep.complexityAnalysis) : rep.complexityAnalysis[j].taskId = k}

\* C13: mergeComplexityScores returns the tasks as they are for the report
\* null; for a report it returns as many tasks in the same order, each with
\* the complexityScore of an analysis for its id if the report has one (the
\* one there is, if there is one only) and with complexityScore undefined if
\* it has none, and with its other fields as they were; the tasks and the
\* report passed in are afterwards as they were passed
C13_MergeComplexityScores ==
    mergeOut.done =>
        LET tasks == mergeOut.passed.tasks
            rep   == mergeOut.passed.report
            out   == mergeOut.tasks
        IN /\ mergeIn = mergeOut.passed
           /\ rep = NoReport => out = tasks
           /\ Len(out) = Len(tasks)
           /\ rep # NoReport =>
                 \A i \in 1..Len(tasks) :
                    /\ out[i] = [tasks[i] EXCEPT !.complexityScore = out[i].complexityScore]
                    /\ IF AnalysesFor(rep, tasks[i].id) = {}
                       THEN out[i].complexityScore = Undefined
                       ELSE \E j \in AnalysesFor(rep, tasks[i].id) :
                               out[i].complexityScore =
                                   rep.complexityAnalysis[j].complexityScore

\* C13 witness: the tasks 2 and 1 were merged with a report that has the
\* score 0 for task 1 and a score for task 3; task 1 has the score 0 and
\* task 2 has none
C13_Witness ==
    /\ mergeOut.done
    /\ mergeOut.passed.tasks = <<MergeTask2, MergeTask1>>
    /\ mergeOut.passed.report = Report(<<Analysis(3, 7), Analysis(1, 0)>>)
    /\ mergeOut.tasks = <<MergeTask2, [MergeTask1 EXCEPT !.complexityScore = 0]>>
    /\ mergeIn = mergeOut.passed

-----------------------------------------------------------------------------
(* The specification of calculateStats: it is applied to each list that      *)
(* DepInput builds from the two tasks                                        *)

InitStatsInputs ==
    /\ InitRefresh /\ InitFilter /\ InitExec /\ InitSvc /\ InitClean /\ InitDeps
    /\ InitSub /\ InitMerge /\ InitParse /\ InitTag
    /\ \E shape \in DepShapes, st \in StatStatuses, l \in StatSubLists,
          st2 \in {"done", "review"} :
          statsIn = DepInput(shape, StatTask1(st, l), StatTask2(st2))
    /\ statsOut = NotCounted

NextStats == CalculateStats

SpecStats == InitStatsInputs /\ [][NextStats]_vars

\* the subtasks of all tasks of a list, as pairs of the positions of the task
\* and of the subtask
AllSubtasks(tasks) ==
    {p \in (1..Len(tasks)) \X (1..(MaxStatSubs + 1)) :
        /\ tasks[p[1]].subtasks # AbsentField
        /\ p[2] <= Len(tasks[p[1]].subtasks)}

\* C14: calculateStats gives the completion percentage 0 for the tasks of an
\* empty list, with total 0, and for the subtasks when no task has a
\* subtask, with subtask total 0
C14_ZeroPercentage ==
    statsOut.done =>
        /\ statsIn = <<>> =>
              /\ statsOut.stats.total = 0
              /\ statsOut.stats.completionPercentage = Ratio(0, 1)
        /\ AllSubtasks(statsIn) = {} =>
              /\ statsOut.stats.subtasks.total = 0
              /\ statsOut.stats.subtasks.completionPercentage = Ratio(0, 1)

\* C14 witness: calculateStats([]) has returned, with both totals and both
\* percentages 0
C14_Witness ==
    /\ statsOut.done
    /\ statsIn = <<>>
    /\ statsOut.stats.total = 0
    /\ statsOut.stats.subtasks.total = 0
    /\ statsOut.stats.completionPercentage = Ratio(0, 1)
    /\ statsOut.stats.subtasks.completionPercentage = Ratio(0, 1)

\* the field of TaskStats that counts the status s
StatsField(s) ==
    CASE s = "done" -> "completed" [] s = "in-progress" -> "inProgress" [] OTHER -> s

\* the count in that field; a field the object does not have counts nothing
StatsCount(counters, s) ==
    IF StatsField(s) \in DOMAIN counters THEN counters[StatsField(s)] ELSE 0

\* C15: for every status s of TaskStatus, calculateStats counts the tasks
\* with status s in the field for s and the subtasks with status s in the
\* nested field for s; total is the number of tasks and subtasks.total the
\* number of subtasks, so that an item of another status is in no count
C15_CountsPerStatus ==
    statsOut.done =>
        /\ statsOut.stats.total = Len(statsIn)
        /\ statsOut.stats.subtasks.total = Cardinality(AllSubtasks(statsIn))
        /\ \A s \in TaskStatuses :
              /\ StatsCount(statsOut.stats, s)
                    = Cardinality({i \in 1..Len(statsIn) : statsIn[i].status = s})
              /\ StatsCount(statsOut.stats.subtasks, s)
                    = Cardinality({p \in AllSubtasks(statsIn) :
                                      statsIn[p[1]].subtasks[p[2]].status = s})

-----------------------------------------------------------------------------
(* The specification of parseNextTaskOutput: it is applied to each output    *)
(* made of at most MaxFrags fragments                                        *)

InitNextTaskInputs ==
    /\ InitRefresh /\ InitFilter /\ InitExec /\ InitSvc /\ InitClean /\ InitDeps
    /\ InitSub /\ InitMerge /\ InitStats /\ InitTag
    /\ \E l \in UNION {[1..n -> NextTaskFrags] : n \in 0..MaxFrags} :
          parseIn = Concat(l)
    /\ parseOut = NotParsed

NextNextTask == ParseNextTaskOutput

SpecNextTask == InitNextTaskInputs /\ [][NextNextTask]_vars

\* cs has a header "Next Task: #<id> -" whose id, of digits and dots, is at
\* the positions a..b
HeaderAt(cs, a, b) ==
    /\ a > Len(NextTaskHeader) /\ a <= b /\ b + 2 <= Len(cs)
    /\ SubSeq(cs, a - Len(NextTaskHeader), a - 1) = NextTaskHeader
    /\ \A k \in a..b : cs[k] \in Digits \cup {"."}
    /\ cs[b + 1] = " " /\ cs[b + 2] = "-"

Headers(cs) == {p \in (1..Len(cs)) \X (1..Len(cs)) : HeaderAt(cs, p[1], p[2])}

\* C16: parseNextTaskOutput succeeds exactly when the output has a header
\* "Next Task: #<id> -"; it then returns the id of the first header, as the
\* dotted string with isSubtask true if the id has a dot and as the integer
\* with isSubtask false if it has none; otherwise it returns success false,
\* a message that is not empty and no id
C16_ParseNextTask ==
    parseOut.fn = "parseNextTaskOutput" =>
        LET r == parseOut.result
            H == Headers(parseIn)
        IN /\ r.success <=> H # {}
           /\ r.success =>
                 \E p \in H :
                    /\ \A q \in H : p[1] <= q[1]
                    /\ LET idStr == SubSeq(parseIn, p[1], p[2])
                       IN IF \E k \in 1..Len(idStr) : idStr[k] = "."
                          THEN r.id = Str(idStr) /\ r.isSubtask
                          ELSE r.id = Num(DecimalValue(idStr, 0)) /\ ~r.isSubtask
           /\ ~r.success =>
                 /\ r.message.text # ""
                 /\ "id" \notin DOMAIN r

\* C16 witness: the output "Next Task: #13.2 -" was parsed to the subtask id
\* "13.2"
C16_Witness ==
    /\ parseOut.fn = "parseNextTaskOutput"
    /\ parseIn = NextTaskHeader \o <<"1", "3", ".", "2", " ", "-">>
    /\ parseOut.result = [success |-> TRUE, id |-> Str(<<"1", "3", ".", "2">>),
                          isSubtask |-> TRUE]

-----------------------------------------------------------------------------
(* The specification of the output parsers: one of them is applied to each   *)
(* output made of at most MaxParts fragments                                 *)

InitParserInputs ==
    /\ InitRefresh /\ InitFilter /\ InitExec /\ InitSvc /\ InitClean /\ InitDeps
    /\ InitSub /\ InitMerge /\ InitStats /\ InitTag
    /\ \E l \in UNION {[1..n -> ParserFrags] : n \in 0..MaxParts} :
          parseIn = Concat(l)
    /\ parseOut = NotParsed

NextParsers ==
    \/ ParseDependencyFixOutput
    \/ ParseDependencyValidationOutput
    \/ ParseTaskDeletionOutput
    \/ ParseTaskCreationOutput
    \/ ParseNextTaskOutput
    \/ ParseStatusChangeOutput

SpecParsers == InitParserInputs /\ [][NextParsers]_vars

\* the texts of which a parser looks for one
ParserPatterns ==
    {Kw.noIssuesFound, Kw.allValid, Kw.noChanges, Kw.dependenciesFixed, Kw.fixed,
     Kw.tasksChecked, Kw.depsVerified, Kw.error, Kw.invalid, Kw.circular, Kw.removed,
     Kw.deleted, Kw.notFound, Kw.doesNotExist, Kw.created, Kw.added, Kw.from, Kw.to,
     Kw.updatedTask, Kw.successfullyUpdated, Kw.statusUpdated, Kw.failed, TaskToken,
     IdToken, NextTaskHeader}

\* none of these texts occurs in cs, in whatever letter case
Unrelated(cs) ==
    \A pat \in ParserPatterns :
        \A i \in 1..Len(cs) :
            \/ i + Len(pat) - 1 > Len(cs)
            \/ \E k \in 1..Len(pat) : ToLowerCase(cs[i + k - 1]) # ToLowerCase(pat[k])

\* C17: a parser applied to an output in which none of the expected texts
\* occurs, before or after cleaning, returns success false and a message
\* that is not empty
C17_NoPatternFails ==
    (parseOut # NotParsed /\ Unrelated(parseIn) /\ Unrelated(cleanCliOutput(parseIn))) =>
        /\ ~parseOut.result.success
        /\ parseOut.result.message.text # ""

\* the positions of cs at which lit occurs, in whatever letter case, with a
\* digit after it
OccurrencesBeforeDigit(cs, lit) ==
    {i \in 1..(Len(cs) - Len(lit)) :
        /\ \A k \in 1..Len(lit) : ToLowerCase(cs[i + k - 1]) = ToLowerCase(lit[k])
        /\ cs[i + Len(lit)] \in Digits}

\* n is the number written by the digits of cs that start at position a
IsNumberAt(cs, a, n) ==
    \E b \in a..Len(cs) :
        /\ \A k \in a..b : cs[k] \in Digits
        /\ b < Len(cs) => cs[b + 1] \notin Digits
        /\ n = DecimalValue(SubSeq(cs, a, b), 0)

\* n is the number after the first occurrence of lit before a digit
IsFirstNumberAfter(cs, lit, n) ==
    \E i \in OccurrencesBeforeDigit(cs, lit) :
        /\ \A j \in OccurrencesBeforeDigit(cs, lit) : i <= j
        /\ IsNumberAt(cs, i + Len(lit), n)

\* the occurrences at which "task" starts a word
WordOccurrences(cs) ==
    {i \in OccurrencesBeforeDigit(cs, TaskToken) : i = 1 \/ cs[i - 1] \notin WordChars}

SucceedsOnKeyword ==
    parseOut.result.success <=>
        \/ Includes(cleanCliOutput(parseIn), Kw.created)
        \/ Includes(cleanCliOutput(parseIn), Kw.added)

\* C18 as stated: parseTaskCreationOutput succeeds exactly when the cleaned
\* output contains "created" or "added", and on success, when the word Task
\* is followed by an integer in the output, taskId is such an integer
C18_TaskIdOfWordTask ==
    parseOut.fn = "parseTaskCreationOutput" =>
        /\ SucceedsOnKeyword
        /\ (parseOut.result.success /\ WordOccurrences(cleanCliOutput(parseIn)) # {}) =>
              \E i \in WordOccurrences(cleanCliOutput(parseIn)) :
                 IsNumberAt(cleanCliOutput(parseIn), i + Len(TaskToken),
                            parseOut.result.taskId)

\* C18: parseTaskCreationOutput succeeds exactly when the cleaned output
\* contains "created" or "added"; taskId is the number after the first
\* occurrence of "task " before a digit, in whatever letter case and also
\* inside a longer word, else the number after the first such occurrence of
\* "ID: ", else undefined
C18_TaskIdOfFirstMatch ==
    parseOut.fn = "parseTaskCreationOutput" =>
        LET cleaned == cleanCliOutput(parseIn)
        IN /\ SucceedsOnKeyword
           /\ IF OccurrencesBeforeDigit(cleaned, TaskToken) # {}
              THEN IsFirstNumberAfter(cleaned, TaskToken, parseOut.result.taskId)
              ELSE IF OccurrencesBeforeDigit(cleaned, IdToken) # {}
              THEN IsFirstNumberAfter(cleaned, IdToken, parseOut.result.taskId)
              ELSE parseOut.result.taskId = Undefined

\* C18 witness: "Task 42 has been created" after an ANSI code was parsed to
\* success with taskId 42
C18_Witness ==
    /\ parseOut.fn = "parseTaskCreationOutput"
    /\ parseIn = AnsiBold \o Fr.task42Created
    /\ parseOut.result.success
    /\ parseOut.result.taskId = 42

\* the fields of a result other than the message
Outcome(r) == [f \in DOMAIN r \ {"message"} |-> r[f]]

\* C20: a parser returns for a raw output what it returns for the cleaned
\* output: the same success and the same extracted fields
C20_ParsesCleanedText ==
    parseOut # NotParsed => Outcome(parseOut.result) = Outcome(parseOut.onCleaned)

-----------------------------------------------------------------------------
(* The specification of the current tag: CLIService.getCurrentTag and        *)
(* readTasksFile are applied to each tags map of at most MaxTags tags        *)

InitTagInputs ==
    /\ InitRefresh /\ InitFilter /\ InitExec /\ InitSvc /\ InitClean /\ InitDeps
    /\ InitSub /\ InitMerge /\ InitStats /\ InitParse
    /\ \E n \in 0..MaxTags :
          \E names \in [1..n -> TagNames], flags \in [1..n -> BOOLEAN] :
             /\ \A i, j \in 1..n : i # j => names[i] # names[j]
             /\ tagIn = [i \in 1..n |-> TagEntry(names[i], flags[i])]
    /\ tagOut = NotResolved

NextTag ==
    \/ GetCurrentTag
    \/ ReadTasksFile

SpecTag == InitTagInputs /\ [][NextTag]_vars

\* what the claim requires of the tag resolved for the file: "master" if no
\* entry is current, the tag of the entry if exactly one is
ResolvesAsClaimed(tag) ==
    /\ (\A i \in 1..Len(tagIn) : ~tagIn[i].current) => tag = "master"
    /\ \A i \in 1..Len(tagIn) :
          (tagIn[i].current /\ \A j \in 1..Len(tagIn) : tagIn[j].current => j = i)
              => tag = tagIn[i].name

\* C19: the current tag of a tasks file is "master" if no entry is marked
\* current, whatever its tags and their order, and the tag of the entry if
\* exactly one is marked current
C19_DefaultTagIsMaster ==
    /\ tagOut.cli # NoTag => ResolvesAsClaimed(tagOut.cli)
    /\ tagOut.helper # NoTag => ResolvesAsClaimed(tagOut.helper)

====
